---------------------------- MODULE Spec2Model ----------------------------
(***************************************************************************)
(* A model of the two transformation passes of the financial-statement     *)
(* chatbot: the table normalizer (chatbot_app.py: save_tables_to_excel and *)
(* _clean_and_convert_to_numeric) and the Markdown line scan               *)
(* (report_generator.py: generate_chat_transcript).                        *)
(*                                                                         *)
(* Python strings are sequences of one-character strings; Python values    *)
(* (cells) are records with the fields t, s, neg, mant, exp, so that any   *)
(* two values can be compared.  A character outside ASCII is written by    *)
(* its code point: "U+20AC" is the one character of the euro sign.         *)
(***************************************************************************)
EXTENDS Integers, Sequences, FiniteSets, TLC

(***************************************************************************)
(* Bounds of the model.                                                    *)
(***************************************************************************)
MaxCellLen == 4

(***************************************************************************)
(* Characters and strings.                                                 *)
(***************************************************************************)
\* str.strip() / float(): the whitespace characters of the model's alphabet.
WhitespaceChars == {" ", "\t", "\n", "\r"}

DigitChars == <<"0", "1", "2", "3", "4", "5", "6", "7", "8", "9">>

UpperChars == <<"A", "B", "C", "D", "E", "F", "G", "H", "I", "J", "K", "L", "M",
                "N", "O", "P", "Q", "R", "S", "T", "U", "V", "W", "X", "Y", "Z">>

LowerChars == <<"a", "b", "c", "d", "e", "f", "g", "h", "i", "j", "k", "l", "m",
                "n", "o", "p", "q", "r", "s", "t", "u", "v", "w", "x", "y", "z">>

DigitSet == { DigitChars[k] : k \in 1..10 }

UpperSet == { UpperChars[k] : k \in 1..26 }

LowerSet == { LowerChars[k] : k \in 1..26 }

IsDigit(c) == c \in DigitSet

DigitVal(c) == (CHOOSE k \in 1..10 : DigitChars[k] = c) - 1

\* str.lower() on one character.
LowerChar(c) ==
    IF c \in UpperSet
    THEN LowerChars[CHOOSE k \in 1..26 : UpperChars[k] = c]
    ELSE c

\* str.lower()
Lower(s) == [k \in 1..Len(s) |-> LowerChar(s[k])]

RECURSIVE LStrip(_)
\* str.lstrip()
LStrip(s) ==
    IF s # <<>> /\ Head(s) \in WhitespaceChars THEN LStrip(Tail(s)) ELSE s

RECURSIVE RStrip(_)
\* str.rstrip()
RStrip(s) ==
    IF s # <<>> /\ s[Len(s)] \in WhitespaceChars
    THEN RStrip(SubSeq(s, 1, Len(s) - 1))
    ELSE s

\* str.strip()
Strip(s) == RStrip(LStrip(s))

\* str.startswith(c) / str.endswith(c) for a one-character argument.
StartsWith(s, c) == s # <<>> /\ s[1] = c

EndsWith(s, c) == s # <<>> /\ s[Len(s)] = c

\* re.sub(r'[chars]', '', s): s without the characters of the set.
RemoveChars(s, chars) == SelectSeq(s, LAMBDA c : c \notin chars)

\* The position of the first character of s that is in chars, 0 when none.
FirstIn(s, chars) ==
    IF \E k \in 1..Len(s) : s[k] \in chars
    THEN CHOOSE k \in 1..Len(s) :
             s[k] \in chars /\ \A m \in 1..(k - 1) : s[m] \notin chars
    ELSE 0

(***************************************************************************)
(* Python values.                                                          *)
(***************************************************************************)
Val(t, s, neg, mant, exp) ==
    [t |-> t, s |-> s, neg |-> neg, mant |-> mant, exp |-> exp]

\* a str
Str(s) == Val("str", s, FALSE, 0, 0)

\* None: a blank cell
Blank == Val("none", <<>>, FALSE, 0, 0)

RECURSIVE Float(_, _, _)
\* The float (-1)^neg * mant * 10^exp, in the form with the smallest mantissa.
Float(neg, mant, exp) ==
    IF mant = 0 THEN Val("float", <<>>, neg, 0, 0)
    ELSE IF mant % 10 = 0 THEN Float(neg, mant \div 10, exp + 1)
    ELSE Val("float", <<>>, neg, mant, exp)

Inf(neg) == Val("inf", <<>>, neg, 0, 0)

NaN == Val("nan", <<>>, FALSE, 0, 0)

\* Values of JSON that are neither strings nor null: int, bool, list, object.
JsonInt(n) == Val("int", <<>>, n < 0, IF n < 0 THEN -n ELSE n, 0)

JsonTrue == Val("bool", <<>>, FALSE, 1, 0)

JsonList == Val("list", <<>>, FALSE, 0, 0)

JsonObject == Val("dict", <<>>, FALSE, 0, 0)

\* isinstance(value, str)
IsStr(v) == v.t = "str"

\* -x for a float x
Negate(v) == IF v.t = "nan" THEN v ELSE [v EXCEPT !.neg = ~v.neg]


(***************************************************************************)
(* float(str): Python's conversion of a string to a float.  The value is    *)
(* exact (a decimal mantissa and exponent); the rounding and the overflow  *)
(* of a double are beyond the lengths of the model's strings.              *)
(***************************************************************************)
\* digitpart ::= digit (["_"] digit)*
DigitPart(d) ==
    /\ d # <<>>
    /\ \A k \in 1..Len(d) :
        \/ IsDigit(d[k])
        \/ /\ d[k] = "_"
           /\ 1 < k /\ k < Len(d)
           /\ IsDigit(d[k - 1]) /\ IsDigit(d[k + 1])

RECURSIVE DigitsToInt(_, _)
DigitsToInt(d, acc) ==
    IF d = <<>> THEN acc
    ELSE DigitsToInt(Tail(d), IF IsDigit(Head(d)) THEN 10 * acc + DigitVal(Head(d)) ELSE acc)

\* float(s): [ok |-> FALSE] stands for ValueError.
ParseFloat(s) ==
    LET t == Strip(s)
        signed == t # <<>> /\ t[1] \in {"+", "-"}
        neg == signed /\ t[1] = "-"
        body == IF signed THEN Tail(t) ELSE t
        low == Lower(body)
        epos == FirstIn(body, {"e", "E"})
        mpart == IF epos = 0 THEN body ELSE SubSeq(body, 1, epos - 1)
        xpart == IF epos = 0 THEN <<>> ELSE SubSeq(body, epos + 1, Len(body))
        xsigned == xpart # <<>> /\ xpart[1] \in {"+", "-"}
        xdigits == IF xsigned THEN Tail(xpart) ELSE xpart
        ppos == FirstIn(mpart, {"."})
        ip == IF ppos = 0 THEN mpart ELSE SubSeq(mpart, 1, ppos - 1)
        fp == IF ppos = 0 THEN <<>> ELSE SubSeq(mpart, ppos + 1, Len(mpart))
        mantOk == /\ ip = <<>> \/ DigitPart(ip)
                  /\ fp = <<>> \/ DigitPart(fp)
                  /\ ip # <<>> \/ fp # <<>>
        expOk == epos = 0 \/ DigitPart(xdigits)
        fdigits == RemoveChars(fp, {"_"})
        mant == DigitsToInt(ip \o fdigits, 0)
        x == IF epos = 0 THEN 0
             ELSE (IF xsigned /\ xpart[1] = "-" THEN -1 ELSE 1) * DigitsToInt(xdigits, 0)
    IN  IF low \in {<<"i", "n", "f">>, <<"i", "n", "f", "i", "n", "i", "t", "y">>}
            THEN [ok |-> TRUE, val |-> Inf(neg)]
        ELSE IF low = <<"n", "a", "n">>
            THEN [ok |-> TRUE, val |-> NaN]
        ELSE IF mantOk /\ expOk
            THEN [ok |-> TRUE, val |-> Float(neg, mant, x - Len(fdigits))]
        ELSE [ok |-> FALSE, val |-> Blank]

(***************************************************************************)
(* _clean_and_convert_to_numeric (chatbot_app.py:151-181)                  *)
(***************************************************************************)
NotAvailableTexts ==
    { <<"n", "/", "a">>,
      <<"n", "o", "t", " ", "a", "p", "p", "l", "i", "c", "a", "b", "l", "e">> }

\* '-', en dash (U+2013), em dash (U+2014)
AccountingDashes == { <<"-">>, <<"U+2013">>, <<"U+2014">> }

\* line 161: not cleaned_value or cleaned_value.lower() in ['n/a', 'not applicable']
IsBlankText(cleaned_value) ==
    cleaned_value = <<>> \/ Lower(cleaned_value) \in NotAvailableTexts

\* a variant of line 165 that knows the ASCII hyphen only
IsAccountingDash_AsciiOnly(cleaned_value) == cleaned_value = <<"-">>

\* line 165: cleaned_value in ('-', en dash, em dash)
IsAccountingDash(cleaned_value) == cleaned_value \in AccountingDashes

\* a variant of lines 169-170 that drops the parentheses and adds no sign
NegateParentheses_NoSign(cleaned_value) ==
    IF StartsWith(cleaned_value, "(") /\ EndsWith(cleaned_value, ")")
    THEN SubSeq(cleaned_value, 2, Len(cleaned_value) - 1)
    ELSE cleaned_value

\* lines 169-170: '(' ... ')' becomes '-' ...
NegateParentheses(cleaned_value) ==
    IF StartsWith(cleaned_value, "(") /\ EndsWith(cleaned_value, ")")
    THEN <<"-">> \o SubSeq(cleaned_value, 2, Len(cleaned_value) - 1)
    ELSE cleaned_value

\* lines 173-174: re.sub(r'[$,<euro>]', '', s).replace(',', '')
RemoveCurrency(cleaned_value) ==
    RemoveChars(RemoveChars(cleaned_value, {"$", ",", "U+20AC"}), {","})

\* a variant of line 181 that returns the trimmed text
OnParseFailure_Stripped(value, cleaned_value) == Str(Strip(value.s))

\* a variant of line 181 that returns the text as cleaned so far
OnParseFailure_Cleaned(value, cleaned_value) == Str(cleaned_value)

\* lines 179-181: the result when float() raises ValueError
OnParseFailure(value, cleaned_value) == value

\* lines 159-181: the result for a str
CleanStr(value) ==
    LET stripped == Strip(value.s)
        cleaned_value == RemoveCurrency(NegateParentheses(stripped))
        parsed == ParseFloat(cleaned_value)
    IN  IF IsBlankText(stripped) THEN Blank
        ELSE IF IsAccountingDash(stripped) THEN Float(FALSE, 0, 0)
        ELSE IF parsed.ok THEN parsed.val
        ELSE OnParseFailure(value, cleaned_value)

\* lines 151-181
clean_and_convert_to_numeric(value) ==
    IF ~IsStr(value) THEN value ELSE CleanStr(value)

(***************************************************************************)
(* JSON tables.  A raw table is any JSON value: a list of rows or not a    *)
(* list; a row is a list of cells or not a list (null, a number: every     *)
(* value that is not a list takes the same path through the code).         *)
(***************************************************************************)
ListRow(cells) == [isList |-> TRUE, cells |-> cells]

NonListRow == [isList |-> FALSE, cells |-> <<>>]

ListTable(rows) == [isList |-> TRUE, rows |-> rows]

NonListTable == [isList |-> FALSE, rows |-> <<>>]

\* "Table Not Found"
TableNotFoundText ==
    <<"T", "a", "b", "l", "e", " ", "N", "o", "t", " ", "F", "o", "u",
    "n", "d">>

\* settings.TARGET_TABLES
TARGET_TABLES ==
    << <<"C", "O", "N", "S", "O", "L", "I", "D", "A", "T", "E", "D", " ",
       "S", "T", "A", "T", "E", "M", "E", "N", "T", "S", " ", "O", "F", " ",
       "C", "A", "S", "H", " ", "F", "L", "O", "W", "S">>,
       <<"C", "O", "N", "S", "O", "L", "I", "D", "A", "T", "E", "D", " ",
       "S", "T", "A", "T", "E", "M", "E", "N", "T", "S", " ", "O", "F", " ",
       "O", "P", "E", "R", "A", "T", "I", "O", "N", "S">>,
       <<"C", "O", "N", "S", "O", "L", "I", "D", "A", "T", "E", "D", " ",
       "B", "A", "L", "A", "N", "C", "E", " ", "S", "H", "E", "E", "T", "S">> >>

(***************************************************************************)
(* save_tables_to_excel (chatbot_app.py:183-265): the steps of one table.  *)
(***************************************************************************)
\* line 191: table_data != [["Table Not Found"]]
IsSentinelTable(table_data) ==
    table_data = ListTable(<<ListRow(<<Str(TableNotFoundText)>>)>>)

\* lines 190-191: the structure test, evaluated left to right
HasValidStructure(table_data) ==
    /\ table_data.isList
    /\ Len(table_data.rows) > 0
    /\ table_data.rows[1].isList
    /\ ~IsSentinelTable(table_data)

\* a variant of line 205 without the isinstance test: list(row) raises
\* TypeError for a row that is not iterable
RowAsList_NoGuard(row) == [raises |-> ~row.isList, cells |-> row.cells]

\* line 205: row_copy = list(row) if isinstance(row, list) else []
RowAsList(row) ==
    [raises |-> FALSE, cells |-> IF row.isList THEN row.cells ELSE <<>>]

\* a variant of lines 206-209 that truncates long rows and leaves short ones
FitToHeader_NoPadding(row_copy, num_header_cols) ==
    IF Len(row_copy) > num_header_cols
    THEN SubSeq(row_copy, 1, num_header_cols)
    ELSE row_copy

\* lines 206-209: truncate to the header width, or extend with ""
FitToHeader(row_copy, num_header_cols) ==
    IF Len(row_copy) > num_header_cols
    THEN SubSeq(row_copy, 1, num_header_cols)
    ELSE IF Len(row_copy) < num_header_cols
    THEN row_copy \o [k \in 1..(num_header_cols - Len(row_copy)) |-> Str(<<>>)]
    ELSE row_copy

\* line 211: [_clean_and_convert_to_numeric(cell) for cell in row_copy]
CleanRow(row_copy) ==
    [k \in 1..Len(row_copy) |-> clean_and_convert_to_numeric(row_copy[k])]

\* a variant of lines 205-211 that cleans the cells before fitting the row
ProcessRow_CleanFirst(row, num_header_cols) ==
    FitToHeader(CleanRow(RowAsList(row).cells), num_header_cols)

\* lines 205-211: one data row
ProcessRow(row, num_header_cols) ==
    CleanRow(FitToHeader(RowAsList(row).cells, num_header_cols))

\* a variant of lines 203-212 that keeps only the rows with a value in them
ProcessedRows_DropBlankRows(data_rows, num_header_cols) ==
    SelectSeq([j \in 1..Len(data_rows) |-> ProcessRow(data_rows[j], num_header_cols)],
              LAMBDA r : \E k \in 1..Len(r) : r[k] # Blank)

\* lines 203-212: processed_rows
ProcessedRows(data_rows, num_header_cols) ==
    [j \in 1..Len(data_rows) |-> ProcessRow(data_rows[j], num_header_cols)]

\* lines 204-205: does list(row) raise for some row
RowsRaise(data_rows) == \E j \in 1..Len(data_rows) : RowAsList(data_rows[j]).raises

\* str.isalnum() on one character
IsAlnum(c) == c \in DigitSet \cup UpperSet \cup LowerSet

\* Excel's limit on the length of a sheet name (line 220)
SheetNameMax == 31

\* a variant of line 220 without .strip()
SafeSheetName_NoStrip(table_name) ==
    LET kept == SelectSeq(table_name, LAMBDA c : IsAlnum(c) \/ c \in {" ", "_"})
    IN  SubSeq(kept, 1, IF Len(kept) < SheetNameMax THEN Len(kept) ELSE SheetNameMax)

\* line 220: "".join(c for c in table_name if c.isalnum() or c in (' ', '_')).strip()[:31]
SafeSheetName(table_name) ==
    LET kept == SelectSeq(table_name, LAMBDA c : IsAlnum(c) \/ c \in {" ", "_"})
        stripped == Strip(kept)
    IN  SubSeq(stripped, 1, IF Len(stripped) < SheetNameMax THEN Len(stripped) ELSE SheetNameMax)

\* line 219: pd.DataFrame(processed_rows, columns=header)
DataFrame(processed_rows, header) == [columns |-> header, rows |-> processed_rows]

\* line 219: can pandas raise?  Not for column labels that are scalars and
\* rows of the header's width; what it does with a label that is a list or
\* an object is not decided here.
DataFrameMayRaise(processed_rows, header) ==
    \/ \E k \in 1..Len(header) : header[k].t \in {"list", "dict"}
    \/ \E j \in 1..Len(processed_rows) : Len(processed_rows[j]) # Len(header)

\* a variant of line 221 that keeps the sheet a name already has
DictSet_KeepFirst(dict, key, val) ==
    IF \E k \in 1..Len(dict) : dict[k].key = key
    THEN dict
    ELSE Append(dict, [key |-> key, val |-> val])

\* line 221: sheets_to_write[safe_sheet_name] = df.  A dict keeps the order
\* of first insertion.
DictSet(dict, key, val) ==
    IF \E k \in 1..Len(dict) : dict[k].key = key
    THEN [k \in 1..Len(dict) |-> IF dict[k].key = key THEN [key |-> key, val |-> val] ELSE dict[k]]
    ELSE Append(dict, [key |-> key, val |-> val])

DictHas(dict, key) == \E k \in 1..Len(dict) : dict[k].key = key

DictGet(dict, key) == dict[CHOOSE k \in 1..Len(dict) : dict[k].key = key].val

(***************************************************************************)
(* report_generator.py: the helpers of the Markdown line scan.             *)
(***************************************************************************)
RECURSIVE LStripChars(_, _)
\* str.lstrip(chars)
LStripChars(s, chars) ==
    IF s # <<>> /\ Head(s) \in chars THEN LStripChars(Tail(s), chars) ELSE s

RECURSIVE RStripChars(_, _)
\* str.rstrip(chars)
RStripChars(s, chars) ==
    IF s # <<>> /\ s[Len(s)] \in chars
    THEN RStripChars(SubSeq(s, 1, Len(s) - 1), chars)
    ELSE s

\* str.strip(chars)
StripChars(s, chars) == RStripChars(LStripChars(s, chars), chars)

RECURSIVE Split(_, _)
\* str.split(sep) for a one-character separator
Split(s, sep) ==
    LET p == FirstIn(s, {sep})
    IN  IF p = 0 THEN <<s>>
        ELSE <<SubSeq(s, 1, p - 1)>> \o Split(SubSeq(s, p + 1, Len(s)), sep)

\* str.count(c) for a one-character argument
Count(s, c) == Cardinality({ k \in 1..Len(s) : s[k] = c })

RECURSIVE SplitLines(_)
\* str.splitlines(): the line ends of the model's alphabet are "\n", "\r"
\* and "\r\n"; a line end at the end of the text opens no further line
SplitLines(s) ==
    LET p == FirstIn(s, {"\n", "\r"})
        q == IF p # 0 /\ s[p] = "\r" /\ p < Len(s) /\ s[p + 1] = "\n" THEN p + 1 ELSE p
    IN  IF s = <<>> THEN <<>>
        ELSE IF p = 0 THEN <<s>>
        ELSE <<SubSeq(s, 1, p - 1)>> \o SplitLines(SubSeq(s, q + 1, Len(s)))

\* lines 62-64: _is_markdown_table_line
is_markdown_table_line(line) ==
    StartsWith(Strip(line), "|") /\ EndsWith(Strip(line), "|")

RECURSIVE LStripColons(_)
\* a variant of lines 81-88 that removes every colon at the start and the
\* end of a cell
LStripColons(part) ==
    IF part # <<>> /\ Head(part) = ":" THEN LStripColons(Tail(part)) ELSE part

RECURSIVE RStripColons(_)
RStripColons(part) ==
    IF part # <<>> /\ part[Len(part)] = ":"
    THEN RStripColons(SubSeq(part, 1, Len(part) - 1)) ELSE part

IsSeparatorCell_EveryColon(part) ==
    LET core_part == RStripColons(LStripColons(part))
    IN  core_part # <<>> /\ \A k \in 1..Len(core_part) : core_part[k] = "-"

\* lines 81-88: one cell of a separator row
IsSeparatorCell(part) ==
    LET core1 == IF StartsWith(part, ":") THEN Tail(part) ELSE part
        core_part == IF EndsWith(core1, ":") THEN SubSeq(core1, 1, Len(core1) - 1) ELSE core1
    IN  core_part # <<>> /\ \A k \in 1..Len(core_part) : core_part[k] = "-"

\* lines 66-89: _is_markdown_table_separator
is_markdown_table_separator(line) ==
    LET stripped_line == Strip(line)
        split == Split(StripChars(stripped_line, {"|"}), "|")
        parts == [k \in 1..Len(split) |-> Strip(split[k])]
    IN  /\ is_markdown_table_line(stripped_line)
        /\ Count(stripped_line, "|") >= 2
        /\ parts # <<>>
        /\ \A k \in 1..Len(parts) : parts[k] = <<>> \/ IsSeparatorCell(parts[k])

\* lines 91-93: _parse_markdown_table_row
parse_markdown_table_row(line) ==
    LET split == Split(StripChars(Strip(line), {"|"}), "|")
    IN  [k \in 1..Len(split) |-> Strip(split[k])]

\* line 172: re.match(r"^\s*([*\-+]|\d+\.)\s+", line): [matched, the marker
\* group(1), the position match.end()]
ListMatch_NoSpaceNeeded(line) ==
    LET n == Len(line)
        \* the first position after the run of characters of the set from p on
        Skip(p, set) ==
            IF \E k \in p..n : line[k] \notin set
            THEN CHOOSE k \in p..n : line[k] \notin set /\ \A m \in p..(k - 1) : line[m] \in set
            ELSE n + 1
        m0 == Skip(1, WhitespaceChars)
        bullet == m0 <= n /\ line[m0] \in {"*", "-", "+"}
        d1 == Skip(m0, DigitSet)
        number == d1 > m0 /\ d1 <= n /\ line[d1] = "."
        m1 == IF bullet THEN m0 + 1 ELSE d1 + 1
        m2 == Skip(m1, WhitespaceChars)
    IN  IF bullet \/ number
        THEN [matched |-> TRUE, marker |-> SubSeq(line, m0, m1 - 1), end |-> m2 - 1]
        ELSE [matched |-> FALSE, marker |-> <<>>, end |-> 0]

ListMatch(line) ==
    LET n == Len(line)
        \* the first position after the run of characters of the set from p on
        Skip(p, set) ==
            IF \E k \in p..n : line[k] \notin set
            THEN CHOOSE k \in p..n : line[k] \notin set /\ \A m \in p..(k - 1) : line[m] \in set
            ELSE n + 1
        m0 == Skip(1, WhitespaceChars)
        bullet == m0 <= n /\ line[m0] \in {"*", "-", "+"}
        d1 == Skip(m0, DigitSet)
        number == d1 > m0 /\ d1 <= n /\ line[d1] = "."
        m1 == IF bullet THEN m0 + 1 ELSE d1 + 1
        m2 == Skip(m1, WhitespaceChars)
    IN  IF (bullet \/ number) /\ m2 > m1
        THEN [matched |-> TRUE, marker |-> SubSeq(line, m0, m1 - 1), end |-> m2 - 1]
        ELSE [matched |-> FALSE, marker |-> <<>>, end |-> 0]

(***************************************************************************)
(* _add_formatted_text (report_generator.py:95-106)                        *)
(***************************************************************************)
\* the first position q >= p with text[q .. q + Len(pat) - 1] = pat, 0 when none
Find(text, pat, p) ==
    LET hits == { q \in p..(Len(text) - Len(pat) + 1) : SubSeq(text, q, q + Len(pat) - 1) = pat }
    IN  IF hits = {} THEN 0 ELSE CHOOSE q \in hits : \A r \in hits : q <= r

\* the end of the match of \*\*.*?\*\*|\*.*?\* that begins at p, 0 when
\* there is none: the first alternative is tried first, each is lazy
MatchEndAt(text, p) ==
    LET bold == IF p < Len(text) /\ SubSeq(text, p, p + 1) = <<"*", "*">>
                THEN Find(text, <<"*", "*">>, p + 2) ELSE 0
        italic == IF p <= Len(text) /\ text[p] = "*" THEN Find(text, <<"*">>, p + 1) ELSE 0
    IN  IF bold # 0 THEN bold + 1 ELSE italic

RECURSIVE ReSplit(_)
\* line 97: re.split(r'(\*\*.*?\*\*|\*.*?\*)', text)
ReSplit(text) ==
    LET starts == { p \in 1..Len(text) : MatchEndAt(text, p) # 0 }
        p == CHOOSE q \in starts : \A r \in starts : q <= r
        e == MatchEndAt(text, p)
    IN  IF starts = {} THEN <<text>>
        ELSE <<SubSeq(text, 1, p - 1), SubSeq(text, p, e)>>
                 \o ReSplit(SubSeq(text, e + 1, Len(text)))

\* a run of a paragraph
Run(text, bold, italic) == [text |-> text, bold |-> bold, italic |-> italic]

\* lines 99-106: the run of one part
PartRun(part) ==
    IF Len(part) >= 2 /\ SubSeq(part, 1, 2) = <<"*", "*">>
           /\ SubSeq(part, Len(part) - 1, Len(part)) = <<"*", "*">>
    THEN Run(SubSeq(part, 3, Len(part) - 2), TRUE, FALSE)
    ELSE IF StartsWith(part, "*") /\ EndsWith(part, "*")
    THEN Run(SubSeq(part, 2, Len(part) - 1), FALSE, TRUE)
    ELSE Run(part, FALSE, FALSE)

\* lines 95-106: the runs added to the paragraph
add_formatted_text(text) ==
    LET parts == ReSplit(text)
    IN  [k \in 1..Len(parts) |-> PartRun(parts[k])]

(***************************************************************************)
(* State.                                                                  *)
(***************************************************************************)
VARIABLES
    value,            \* the argument of _clean_and_convert_to_numeric
    cleaned,          \* its result
    recleaned,        \* the result of cleaning the result again
    tables_data,      \* save_tables_to_excel: the items of the dict, in order
    t_idx,            \* the number of items the for loop has handled
    sheets_to_write,  \* the dict sheet name -> DataFrame
    log,              \* the warnings and errors logged
    excel_file,       \* the workbook written
    raised,           \* an exception left save_tables_to_excel
    t_pc,             \* "off", "loop", "done" or "raised"
    chat_history,     \* generate_chat_transcript: the turns [query, response]
    turn,             \* the number of turns the for loop has handled
    response_lines,   \* the lines of the response of the current turn
    i,                \* the cursor of the while loop
    doc,              \* the blocks added to the document, in order
    r_raised,         \* an exception left generate_chat_transcript
    r_pc,             \* "off", "turn", "scan", "done", "save failed" or "raised"
    f_text,           \* _add_formatted_text: the text to add
    f_parts,          \* the parts re.split gave that wait for their run
    f_runs,           \* the runs added to the paragraph, in order
    f_pc,             \* "off", "split", "loop" or "done"
    c_pc,             \* main: "off", "setup", "upload", "prompt", "preset",
                      \* "chat", "finally", "transcript", "cleanup" or "ended"
    uploaded,         \* uploaded_pdf_files_map is not empty
    p_idx,            \* the number of preset questions asked
    llm_calls,        \* the calls of generate_chat_response that have
                      \* returned or raised so far
    extracted_data,   \* extract_tables_from_pdf: what the response text is
    validated_data,   \* the items of the dict built from it, in order
    x_idx,            \* the number of target tables the for loop has handled
    x_error,          \* the service returned (None, error)
    x_pc,             \* "off", "upload", "generate", "parse", "validate",
                      \* "finally", "returned", "saving" or "logged"
    uploaded_file,    \* extract_tables_from_pdf: uploaded_file is not None
    x_service_file,   \* the file genai.upload_file created is on the service
    x_delete_called,  \* _delete_file was called with it
    pdfs_to_process,         \* handle_table_extraction: the PDFs of its loop
    pdf_no,                  \* the position of the PDF being processed
    extraction_log_entries,  \* the log entries appended so far
    pdf_files_for_chat,      \* main: the PDFs selected for the chat
    pdf_idx,                 \* upload_pdfs_for_chat: the PDFs its loop has handled
    uploaded_files_map,      \* upload_pdfs_for_chat: the files uploaded so far
    uploaded_pdf_files_map,  \* main: the files upload_pdfs_for_chat returned
    service_files,           \* the chat files that are on the service
    delete_calls,            \* the files _delete_file was called with
    s_line,           \* the argument of _is_markdown_table_separator
    s_result          \* its result "True" or "False", "none" before the call

cellVars == <<value, cleaned, recleaned>>

tableVars == <<tables_data, t_idx, sheets_to_write, log, excel_file, raised, t_pc>>

renderVars == <<chat_history, turn, response_lines, i, doc, r_raised, r_pc>>

inlineVars == <<f_text, f_parts, f_runs, f_pc>>

sessionVars == <<c_pc, uploaded, p_idx, llm_calls>>

extractVars == <<extracted_data, validated_data, x_idx, x_error, x_pc, uploaded_file,
                 x_service_file, x_delete_called, pdfs_to_process, pdf_no,
                 extraction_log_entries>>

uploadVars == <<pdf_files_for_chat, pdf_idx, uploaded_files_map, uploaded_pdf_files_map,
                service_files, delete_calls>>

separatorVars == <<s_line, s_result>>

vars == <<cellVars, tableVars, renderVars, inlineVars, sessionVars, extractVars, uploadVars,
          separatorVars>>

\* the variables outside one component
outsideCell == <<tableVars, renderVars, inlineVars, sessionVars, extractVars, uploadVars, separatorVars>>

outsideTables == <<cellVars, renderVars, inlineVars, sessionVars, extractVars, uploadVars, separatorVars>>

outsideRender == <<cellVars, tableVars, inlineVars, sessionVars, extractVars, uploadVars, separatorVars>>

outsideInline == <<cellVars, tableVars, renderVars, sessionVars, extractVars, uploadVars, separatorVars>>

outsideSession == <<cellVars, tableVars, renderVars, inlineVars, extractVars, separatorVars>>

outsideExtract == <<cellVars, renderVars, inlineVars, sessionVars, uploadVars, separatorVars>>

outsideSeparator == <<cellVars, tableVars, renderVars, inlineVars, sessionVars, extractVars,
                      uploadVars>>

\* no result yet
Unset == Val("unset", <<>>, FALSE, 0, 0)

(***************************************************************************)
(* Cells: _clean_and_convert_to_numeric applied to one value, then to its  *)
(* own result.                                                             *)
(***************************************************************************)
CellChars == {" ", "(", ")", "$", ",", "-", "1", "."}

\* the cell texts of the prompt's example and of the usual statements
CellSamples ==
    { <<"$", "1", ",", "2", "3", "4", ".", "5", "6">>,
      <<"(", "7", "8", "9", ")">>,
      <<"(", "$", "8", "0", "0", ",", "0", "0", "0", ")">>,
      <<"U+2013">>,
      <<"U+2014">>,
      <<" ", "U+2014", " ">>,
      <<"N", "/", "A">>,
      <<" ", "n", "/", "a">>,
      <<"N", "o", "t", " ", "A", "p", "p", "l", "i", "c", "a", "b", "l", "e">>,
      <<"F", "Y", "2", "0", "2", "3">>,
      <<" ", "F", "Y", "2", "0", "2", "3", " ">>,
      <<"U+20AC", "1", "2">>,
      <<"(", " ", "7", "8", "9", " ", ")">>,
      <<"(", "+", "7", ")">>,
      <<"n", "a", "n">>,
      <<"(", "i", "n", "f", ")">>,
      <<"1", "e", "3">> }

CellTexts == UNION { [1..k -> CellChars] : k \in 0..MaxCellLen } \cup CellSamples

\* values that are not str: null, int, float, bool, list, object
NonStrValues ==
    { Blank, JsonInt(5), Float(TRUE, 25, -1), Float(FALSE, 0, 0), NaN,
      JsonTrue, JsonList, JsonObject }

CellInputs == { Str(s) : s \in CellTexts } \cup NonStrValues

\* no workbook
NoFile == [written |-> FALSE, sheets |-> <<>>]

\* save_tables_to_excel is not called
TablesOff ==
    /\ tables_data = <<>>
    /\ t_idx = 0
    /\ sheets_to_write = <<>>
    /\ log = <<>>
    /\ excel_file = NoFile
    /\ raised = FALSE
    /\ t_pc = "off"

\* generate_chat_transcript is not called
RenderOff ==
    /\ chat_history = <<>>
    /\ turn = 0
    /\ response_lines = <<>>
    /\ i = 0
    /\ doc = <<>>
    /\ r_raised = FALSE
    /\ r_pc = "off"

\* no response text yet
NoResponse == [kind |-> "none", items |-> <<>>]

\* extract_tables_from_pdf is not called
ExtractOff ==
    /\ extracted_data = NoResponse
    /\ validated_data = <<>>
    /\ x_idx = 0
    /\ x_error = FALSE
    /\ x_pc = "off"
    /\ uploaded_file = FALSE
    /\ x_service_file = FALSE
    /\ x_delete_called = FALSE
    /\ pdfs_to_process = <<>>
    /\ pdf_no = 0
    /\ extraction_log_entries = <<>>

\* main is not running
SessionOff ==
    /\ c_pc = "off"
    /\ uploaded = FALSE
    /\ p_idx = 0
    /\ llm_calls = 0
    /\ pdf_files_for_chat = <<>>
    /\ pdf_idx = 0
    /\ uploaded_files_map = <<>>
    /\ uploaded_pdf_files_map = <<>>
    /\ service_files = {}
    /\ delete_calls = {}

\* _is_markdown_table_separator is not called on its own
SeparatorOff ==
    /\ s_line = <<>>
    /\ s_result = "none"

\* _add_formatted_text is not called on its own
InlineOff ==
    /\ f_text = <<>>
    /\ f_parts = <<>>
    /\ f_runs = <<>>
    /\ f_pc = "off"

\* _clean_and_convert_to_numeric is not called
CellsOff ==
    /\ value = Unset
    /\ cleaned = Unset
    /\ recleaned = Unset

InitCell ==
    /\ value \in CellInputs
    /\ cleaned = Unset
    /\ recleaned = Unset
    /\ TablesOff
    /\ RenderOff
    /\ InlineOff
    /\ SessionOff
    /\ ExtractOff
    /\ SeparatorOff

\* cleaned = _clean_and_convert_to_numeric(value)
CleanCell ==
    /\ cleaned = Unset
    /\ value # Unset
    /\ cleaned' = clean_and_convert_to_numeric(value)
    /\ UNCHANGED <<value, recleaned, outsideCell>>

\* recleaned = _clean_and_convert_to_numeric(cleaned)
RecleanCell ==
    /\ cleaned # Unset
    /\ recleaned = Unset
    /\ recleaned' = clean_and_convert_to_numeric(cleaned)
    /\ UNCHANGED <<value, cleaned, outsideCell>>

NextCell == CleanCell \/ RecleanCell

SpecCell == InitCell /\ [][NextCell]_vars

(***************************************************************************)
(* Tables: save_tables_to_excel applied to one table set.                  *)
(***************************************************************************)
MaxHeader == 2

MaxRows == 2

MaxTables == 3

\* the cells of the tables of the model: a negative amount, a blank and a
\* text
TableCells == << Str(<<" ", "(", "1", ")">>), Str(<<" ">>), Str(<<"x">>) >>

\* a row of w cells that runs through TableCells from the given one on
CellsFrom(first, w) == [k \in 1..w |-> TableCells[((first + k - 2) % Len(TableCells)) + 1]]

\* the column labels "Y1", "Y2", ...
HeaderOfWidth(w) == [k \in 1..w |-> Str(<<"Y", DigitChars[k + 1]>>)]

\* header rows: of every width, the not-found text, a label that is a list
Headers ==
    { HeaderOfWidth(w) : w \in 0..MaxHeader }
        \cup { <<Str(TableNotFoundText)>>, <<JsonList>> }

\* data rows: lists of every width up to one more than the widest header,
\* beginning with an amount or with a blank, and a row that is not a list
DataRows ==
    { ListRow(CellsFrom(first, w)) :
          first \in 1..2, w \in 0..(MaxHeader + 1) }
        \cup { NonListRow }

\* raw tables: every header with every sequence of up to MaxRows data rows,
\* and the values without a header row
RawTables ==
    { ListTable(<<ListRow(h)>> \o rs) :
          h \in Headers, rs \in UNION { [1..n -> DataRows] : n \in 0..MaxRows } }
        \cup { NonListTable, ListTable(<<>>), ListTable(<<NonListRow>>),
               ListTable(<<NonListRow, ListRow(<<Str(<<" ">>)>>)>>) }

\* the tables of the table sets with more than one table
TableSamples ==
    { NonListTable,
      ListTable(<<>>),
      ListTable(<<ListRow(<<Str(TableNotFoundText)>>)>>),
      ListTable(<<ListRow(HeaderOfWidth(1))>>),
      ListTable(<<ListRow(HeaderOfWidth(1)), ListRow(<<Str(<<" ", "(", "1", ")">>)>>)>>),
      ListTable(<<ListRow(HeaderOfWidth(2)), NonListRow,
                  ListRow(<<Str(<<" ">>), Str(<<" ", "(", "1", ")">>), Str(<<" ">>)>>)>>) }

\* the keys of the table sets: a short name with characters that no sheet
\* name keeps, one of them in front of a space, the target tables, and a name
\* that differs from the first target table after its 31st character only
TableNames ==
    << <<"-", " ", "N", "o", "t", "e", "s", ":", " ", "1">>,
       TARGET_TABLES[1],
       TARGET_TABLES[1] \o <<" ", "(", "C", "O", "N", "T", "I", "N", "U", "E", "D", ")">>,
       TARGET_TABLES[2],
       TARGET_TABLES[3] >>

TableSets ==
    { <<[name |-> TableNames[1], data |-> d]>> : d \in RawTables }
        \cup UNION { { [k \in 1..n |-> [name |-> TableNames[k], data |-> f[k]]] :
                           f \in [1..n -> TableSamples] } :
                     n \in 0..(IF MaxTables < Len(TableNames) THEN MaxTables ELSE Len(TableNames)) }

InitTables ==
    /\ tables_data \in TableSets
    /\ t_idx = 0
    /\ sheets_to_write = <<>>
    /\ log = <<>>
    /\ excel_file = NoFile
    /\ raised = FALSE
    /\ t_pc = "loop"
    /\ CellsOff
    /\ RenderOff
    /\ InlineOff
    /\ SessionOff
    /\ ExtractOff
    /\ SeparatorOff

\* logger.warning / logger.error
Logged(level, what, table_name) ==
    Append(log, [level |-> level, what |-> what, table |-> table_name])

\* a variant of lines 190-193 that leaves the loop (break) where the code
\* goes on with the next table (continue)
SkipMalformedTable_Break ==
    /\ t_pc = "loop"
    /\ t_idx < Len(tables_data)
    /\ LET item == tables_data[t_idx + 1]
       IN  /\ ~HasValidStructure(item.data)
           /\ log' = Logged("warning", "invalid structure", item.name)
    /\ t_idx' = Len(tables_data)
    /\ UNCHANGED <<tables_data, sheets_to_write, excel_file, raised, t_pc, outsideTables>>

\* lines 190-193: the table has no header row or is the "not found" table
SkipMalformedTable ==
    /\ t_pc = "loop"
    /\ t_idx < Len(tables_data)
    /\ LET item == tables_data[t_idx + 1]
       IN  /\ ~HasValidStructure(item.data)
           /\ log' = Logged("warning", "invalid structure", item.name)
    /\ t_idx' = t_idx + 1
    /\ UNCHANGED <<tables_data, sheets_to_write, excel_file, raised, t_pc, outsideTables>>

\* lines 195-201: the header row is empty
SkipEmptyHeader ==
    /\ t_pc = "loop"
    /\ t_idx < Len(tables_data)
    /\ LET item == tables_data[t_idx + 1]
       IN  /\ HasValidStructure(item.data)
           /\ Len(item.data.rows[1].cells) = 0
           /\ log' = Logged("warning", "empty header", item.name)
    /\ t_idx' = t_idx + 1
    /\ UNCHANGED <<tables_data, sheets_to_write, excel_file, raised, t_pc, outsideTables>>

\* lines 195-223: the rows are processed; the table becomes a sheet unless
\* it has no data row or pandas raises
NormalizeTable ==
    /\ t_pc = "loop"
    /\ t_idx < Len(tables_data)
    /\ LET item == tables_data[t_idx + 1]
           table_data == item.data
       IN  /\ HasValidStructure(table_data)
           /\ Len(table_data.rows[1].cells) # 0
           /\ LET header == table_data.rows[1].cells
                  data_rows == Tail(table_data.rows)
                  num_header_cols == Len(header)
                  processed_rows == ProcessedRows(data_rows, num_header_cols)
              IN  IF RowsRaise(data_rows)
                  THEN /\ raised' = TRUE
                       /\ t_pc' = "raised"
                       /\ UNCHANGED <<t_idx, sheets_to_write, log>>
                  ELSE /\ t_idx' = t_idx + 1
                       /\ UNCHANGED <<raised, t_pc>>
                       /\ IF processed_rows = <<>>
                          THEN /\ log' = Logged("warning", "no valid data rows", item.name)
                               /\ UNCHANGED sheets_to_write
                          ELSE \E df_raises \in
                                   IF DataFrameMayRaise(processed_rows, header)
                                   THEN {FALSE, TRUE} ELSE {FALSE} :
                               IF df_raises
                               THEN /\ log' = Logged("error", "DataFrame", item.name)
                                    /\ UNCHANGED sheets_to_write
                               ELSE /\ sheets_to_write' =
                                          DictSet(sheets_to_write, SafeSheetName(item.name),
                                                  DataFrame(processed_rows, header))
                                    /\ UNCHANGED log
    /\ UNCHANGED <<tables_data, excel_file, outsideTables>>

\* lines 225-228: nothing to write
NoSheets ==
    /\ t_pc = "loop"
    /\ t_idx = Len(tables_data)
    /\ sheets_to_write = <<>>
    /\ log' = Logged("warning", "no valid tables", <<>>)
    /\ t_pc' = "done"
    /\ UNCHANGED <<tables_data, t_idx, sheets_to_write, excel_file, raised, outsideTables>>

\* lines 230-265: the workbook is written; an exception of the writer is
\* caught and logged
WriteExcel ==
    /\ t_pc = "loop"
    /\ t_idx = Len(tables_data)
    /\ sheets_to_write # <<>>
    /\ \E ok \in BOOLEAN :
          IF ok
          THEN /\ excel_file' = [written |-> TRUE, sheets |-> sheets_to_write]
               /\ UNCHANGED log
          ELSE /\ log' = Logged("error", "write", <<>>)
               /\ UNCHANGED excel_file
    /\ t_pc' = "done"
    /\ UNCHANGED <<tables_data, t_idx, sheets_to_write, raised, outsideTables>>

NextTables ==
    \/ SkipMalformedTable
    \/ SkipEmptyHeader
    \/ NormalizeTable
    \/ NoSheets
    \/ WriteExcel

SpecTables == InitTables /\ [][NextTables]_vars

(***************************************************************************)
(* generate_chat_transcript (report_generator.py:108-190)                  *)
(***************************************************************************)
MaxLines == 4
MaxLineLen == 3
MaxTurns == 2

\* a block of the document: a paragraph has a style and runs, a table has
\* the texts of its cells; the first row of a table is set bold (lines
\* 163-167) and the colour of the query run (line 130) is not part of a block
Block(kind, style, runs, rows) ==
    [kind |-> kind, style |-> style, runs |-> runs, rows |-> rows]

Paragraph(style, runs) == Block("paragraph", style, runs, <<>>)

WordTable(rows) == Block("table", "Table Grid", <<>>, rows)

\* lines 117-123: the heading, the date, the loaded PDFs and the rule; the
\* texts of the date and of the PDF list are left out
Preamble ==
    << Block("heading", "Heading 1", <<>>, <<>>),
       Paragraph("Normal", <<>>),
       Paragraph("Normal", <<>>),
       Paragraph("Normal", <<>>) >>

\* lines 127-134: the paragraphs in front of the lines of a response
TurnIntro(user_query) ==
    << Paragraph("Normal", <<Run(<<"U", "s", "e", "r", ":", " ">>, TRUE, FALSE), Run(user_query, FALSE, FALSE)>>),
       Paragraph("Normal", <<Run(<<"C", "h", "a", "t", "b", "o", "t", ":">>, TRUE, FALSE)>>) >>

\* lines 143-144: a table starts at the cursor (counted from 0 as in the
\* code); response_lines[i+1] is read only when it exists
TableStart_NoSeparatorCheck(lines, cursor) ==
    /\ is_markdown_table_line(lines[cursor + 1])
    /\ cursor + 1 < Len(lines)

TableStart(lines, cursor) ==
    /\ is_markdown_table_line(lines[cursor + 1])
    /\ cursor + 1 < Len(lines)
    /\ is_markdown_table_separator(lines[cursor + 2])

RECURSIVE DataRowCount(_, _)
\* lines 152-154: the number of table lines from the cursor on
DataRowCount(lines, cursor) ==
    IF cursor < Len(lines) /\ is_markdown_table_line(lines[cursor + 1])
    THEN 1 + DataRowCount(lines, cursor + 1)
    ELSE 0

\* lines 147-154: the parsed header and data rows of the table whose header
\* is at the cursor
TableRows_OneDataRow(lines, cursor) ==
    LET n == IF DataRowCount(lines, cursor + 2) > 0 THEN 1 ELSE 0
    IN  <<parse_markdown_table_row(lines[cursor + 1])>>
            \o [k \in 1..n |-> parse_markdown_table_row(lines[cursor + 2 + k])]

TableRows(lines, cursor) ==
    LET n == DataRowCount(lines, cursor + 2)
    IN  <<parse_markdown_table_row(lines[cursor + 1])>>
            \o [k \in 1..n |-> parse_markdown_table_row(lines[cursor + 2 + k])]

\* lines 160-162: the columns of a parsed row that are written to the table
WrittenCells_NoGuard(row_data, num_cols) ==
    1..Len(row_data)

WrittenCells(row_data, num_cols) ==
    { c \in 1..Len(row_data) : c <= num_cols }

\* line 162: word_table.cell(r, c) has no column beyond num_cols
CellRaises(table_rows) ==
    \E r \in 1..Len(table_rows) :
        \E c \in WrittenCells(table_rows[r], Len(table_rows[1])) : c > Len(table_rows[1])

\* lines 158-162: the table of len(table_rows) rows and num_cols columns,
\* its cells empty until written
WordTableOf(table_rows) ==
    LET num_cols == Len(table_rows[1])
    IN  WordTable([r \in 1..Len(table_rows) |->
            [c \in 1..num_cols |->
                IF c \in WrittenCells(table_rows[r], num_cols)
                THEN table_rows[r][c] ELSE <<>>]])

\* lines 173-175: the paragraph of a list item
ListItem(line) ==
    LET list_match == ListMatch(line)
    IN  Paragraph(IF EndsWith(list_match.marker, ".") THEN "List Number" ELSE "List Bullet",
                  add_formatted_text(SubSeq(line, list_match.end + 1, Len(line))))

\* lines 177-179: a regular paragraph
PlainParagraph(line) == Paragraph("Normal", add_formatted_text(line))

RECURSIVE JoinLines(_)
\* the lines joined by "\n"
JoinLines(lines) ==
    IF lines = <<>> THEN <<>>
    ELSE IF Len(lines) = 1 THEN lines[1]
    ELSE lines[1] \o <<"\n">> \o JoinLines(Tail(lines))

\* the lines the responses of several lines are built from: a separator
\* row, a row of one cell, a row of three cells, a blank line, a list item
LineKinds ==
    << <<"|", "-", "|", ":", "-", "|">>,
       <<"|", "c", "|">>,
       <<"|", "d", "|", "e", "|", "f", "|">>,
       <<>>,
       <<"*", " ", "x">> >>

RECURSIVE LineSeqs(_)
LineSeqs(n) ==
    IF n = 0 THEN {<<>>}
    ELSE LineSeqs(n - 1) \cup
         { Append(ls, LineKinds[k]) : ls \in { l \in LineSeqs(n - 1) : Len(l) = n - 1 },
                                      k \in 1..Len(LineKinds) }

\* the characters of the responses of one line
LineChars == {"|", "-", ":", " ", "*", "1", ".", "a"}

RECURSIVE ShortLines(_)
ShortLines(n) ==
    IF n = 0 THEN {<<>>}
    ELSE ShortLines(n - 1) \cup
         { Append(s, c) : s \in { t \in ShortLines(n - 1) : Len(t) = n - 1 }, c \in LineChars }

\* responses with the line ends "\r\n" and "\r" and with a line end last,
\* with list markers, and with a blank line after a table
ResponseSamples ==
    << <<"|", "c", "|", "\r", "\n", "|", "-", "|", "\r", "\n", "|", "d", "|", "e", "|", "f", "|", "\r", "\n">>,
       <<"1", ".", " ", "x", "\r", "\n", "\n">>,
       <<" ", "|", " ", "a", " ", "|", " ", "b", " ", "|", " ", "\n", " ", "|", " ", "-", "-", "-", " ", "|", " ", ":", "-", ":", " ", "|", " ", "\n", "|", "c", "|", "\n", "|", "d", "|", "e", "|", "f", "|", "\n">>,
       <<"|", "c", "|", "\n", "|", "d", "|", "e", "|", "f", "|", "\n", "|", "-", "|", ":", "-", "|", "\n", "\n", "|", "c", "|">>,
       <<" ", " ", "+", " ", "a", "\n", " ", "1", "2", ".", "\t", "*", "*", "b", "*", "*", "\n", "1", ".", "x", "\n", "*", "a", "\n", "-", " ">>,
       <<"|", "d", "|", "e", "|", "f", "|", "\n", "|", "-", "|", ":", "-", "|", "\n", "|", "c", "|", "\n", "\n">> >>

\* the responses of the histories of several turns
TurnSamples ==
    << JoinLines(<<LineKinds[2], LineKinds[1], LineKinds[3]>>),
       LineKinds[5],
       <<>> >>

Turn(user_query, chatbot_response) == [query |-> user_query, response |-> chatbot_response]

\* the queries of the histories of several turns
TurnQueries ==
    << <<"Y", "o", "u", ":", " ", "q">>,
       <<"Y", "o", "u", ":", " ", "r">> >>

RECURSIVE TurnSeqs(_)
TurnSeqs(n) ==
    IF n = 0 THEN {<<>>}
    ELSE TurnSeqs(n - 1) \cup
         { Append(h, Turn(TurnQueries[q], TurnSamples[k])) :
               h \in { g \in TurnSeqs(n - 1) : Len(g) = n - 1 },
               q \in 1..Len(TurnQueries), k \in 1..Len(TurnSamples) }

Histories ==
    { <<Turn(<<"Y", "o", "u", ":", " ", "q">>, JoinLines(ls))>> : ls \in LineSeqs(MaxLines) }
        \cup { <<Turn(<<"Y", "o", "u", ":", " ", "q">>, s)>> : s \in ShortLines(MaxLineLen) }
        \cup { <<Turn(<<"Y", "o", "u", ":", " ", "q">>, ResponseSamples[k])>> : k \in 1..Len(ResponseSamples) }
        \cup TurnSeqs(MaxTurns)

\* lines 117-123: the document before the first turn
InitRender ==
    /\ chat_history \in Histories
    /\ turn = 0
    /\ response_lines = <<>>
    /\ i = 0
    /\ doc = Preamble
    /\ r_raised = FALSE
    /\ r_pc = "turn"
    /\ CellsOff
    /\ TablesOff
    /\ InlineOff
    /\ SessionOff
    /\ ExtractOff
    /\ SeparatorOff

\* an exception leaves generate_chat_transcript
RenderRaise ==
    /\ r_raised' = TRUE
    /\ r_pc' = "raised"
    /\ UNCHANGED <<chat_history, turn, response_lines, i, doc>>

\* lines 125-138: the next turn of the for loop
BeginTurn_CursorNotReset ==
    /\ r_pc = "turn"
    /\ turn < Len(chat_history)
    /\ turn' = turn + 1
    /\ doc' = doc \o TurnIntro(chat_history[turn + 1].query)
    /\ response_lines' = SplitLines(chat_history[turn + 1].response)
    /\ i' = i
    /\ r_pc' = "scan"
    /\ UNCHANGED <<chat_history, r_raised, outsideRender>>

BeginTurn ==
    /\ r_pc = "turn"
    /\ turn < Len(chat_history)
    /\ turn' = turn + 1
    /\ doc' = doc \o TurnIntro(chat_history[turn + 1].query)
    /\ response_lines' = SplitLines(chat_history[turn + 1].response)
    /\ i' = 0
    /\ r_pc' = "scan"
    /\ UNCHANGED <<chat_history, r_raised, outsideRender>>

\* lines 143-169: a table at the cursor
ScanTable_SeparatorNotSkipped ==
    /\ r_pc = "scan"
    /\ i < Len(response_lines)
    /\ TableStart(response_lines, i)
    /\ LET table_rows == TableRows(response_lines, i)
       IN  IF CellRaises(table_rows)
           THEN RenderRaise
           ELSE /\ doc' = Append(doc, WordTableOf(table_rows))
                /\ i' = i + Len(table_rows)
                /\ UNCHANGED <<chat_history, turn, response_lines, r_raised, r_pc>>
    /\ UNCHANGED outsideRender

ScanTable ==
    /\ r_pc = "scan"
    /\ i < Len(response_lines)
    /\ TableStart(response_lines, i)
    /\ LET table_rows == TableRows(response_lines, i)
       IN  IF CellRaises(table_rows)
           THEN RenderRaise
           ELSE /\ doc' = Append(doc, WordTableOf(table_rows))
                /\ i' = i + 1 + Len(table_rows)
                /\ UNCHANGED <<chat_history, turn, response_lines, r_raised, r_pc>>
    /\ UNCHANGED outsideRender

\* lines 172-175 and 181: a list item at the cursor
ScanListItem ==
    /\ r_pc = "scan"
    /\ i < Len(response_lines)
    /\ ~TableStart(response_lines, i)
    /\ ListMatch(response_lines[i + 1]).matched
    /\ doc' = Append(doc, ListItem(response_lines[i + 1]))
    /\ i' = i + 1
    /\ UNCHANGED <<chat_history, turn, response_lines, r_raised, r_pc>>
    /\ UNCHANGED outsideRender

\* lines 177-181: a regular paragraph at the cursor
ScanParagraph_MergeIntoPrevious ==
    /\ r_pc = "scan"
    /\ i < Len(response_lines)
    /\ ~TableStart(response_lines, i)
    /\ ~ListMatch(response_lines[i + 1]).matched
    /\ doc' = [doc EXCEPT ![Len(doc)].runs = @ \o add_formatted_text(response_lines[i + 1])]
    /\ i' = i + 1
    /\ UNCHANGED <<chat_history, turn, response_lines, r_raised, r_pc>>
    /\ UNCHANGED outsideRender

ScanParagraph ==
    /\ r_pc = "scan"
    /\ i < Len(response_lines)
    /\ ~TableStart(response_lines, i)
    /\ ~ListMatch(response_lines[i + 1]).matched
    /\ doc' = Append(doc, PlainParagraph(response_lines[i + 1]))
    /\ i' = i + 1
    /\ UNCHANGED <<chat_history, turn, response_lines, r_raised, r_pc>>
    /\ UNCHANGED outsideRender

\* lines 139 and 183: the while loop ends, a paragraph separates the turns
EndTurn ==
    /\ r_pc = "scan"
    /\ ~(i < Len(response_lines))
    /\ doc' = Append(doc, Paragraph("Normal", <<>>))
    /\ r_pc' = "turn"
    /\ UNCHANGED <<chat_history, turn, response_lines, i, r_raised, outsideRender>>

\* lines 185-190: the document is saved; a failure is logged, not raised
SaveTranscript ==
    /\ r_pc = "turn"
    /\ ~(turn < Len(chat_history))
    /\ \E saved \in BOOLEAN :
           r_pc' = IF saved THEN "done" ELSE "save failed"
    /\ UNCHANGED <<chat_history, turn, response_lines, i, doc, r_raised, outsideRender>>

NextRender ==
    \/ BeginTurn
    \/ ScanTable
    \/ ScanListItem
    \/ ScanParagraph
    \/ EndTurn
    \/ SaveTranscript

SpecRender == InitRender /\ [][NextRender]_vars

(***************************************************************************)
(* The two passes side by side: a run is one call of save_tables_to_excel  *)
(* or one call of generate_chat_transcript                                 *)
(***************************************************************************)
InitPasses == InitTables \/ InitRender

NextPasses == NextTables \/ NextRender

SpecPasses == InitPasses /\ [][NextPasses]_vars

(***************************************************************************)
(* _add_formatted_text on its own (report_generator.py:95-106)             *)
(***************************************************************************)
MaxTextLen == 6

\* the characters of the texts
InlineChars == {"*", "a", " "}

RECURSIVE TextsUpTo(_)
TextsUpTo(n) ==
    IF n = 0 THEN {<<>>}
    ELSE TextsUpTo(n - 1) \cup
         { Append(s, c) : s \in { u \in TextsUpTo(n - 1) : Len(u) = n - 1 }, c \in InlineChars }

\* texts with both kinds of pairs, with stars around a pair, and with a pair
\* of stars that encloses nothing
InlineSamples ==
    << <<"*", "*", "b", "o", "l", "d", "*", "*", " ", "a", "n", "d", " ", "*", "i", "t", "a", "l", "i", "c", "*", " ", "a", "n", "d", " ", "p", "l", "a", "i", "n">>,
       <<"*", "*", "*", "x", "*", "*", "*">>,
       <<"a", " ", "*", "*", " ", "b">> >>

InlineTexts ==
    TextsUpTo(MaxTextLen) \cup { InlineSamples[k] : k \in 1..Len(InlineSamples) }

\* the call: the paragraph has no runs yet
InitInline ==
    /\ f_text \in InlineTexts
    /\ f_parts = <<>>
    /\ f_runs = <<>>
    /\ f_pc = "split"
    /\ CellsOff
    /\ TablesOff
    /\ RenderOff
    /\ SessionOff
    /\ ExtractOff
    /\ SeparatorOff

\* line 97: the text is split at the delimited parts
SplitText ==
    /\ f_pc = "split"
    /\ f_parts' = ReSplit(f_text)
    /\ f_pc' = "loop"
    /\ UNCHANGED <<f_text, f_runs, outsideInline>>

\* lines 98-106: the next part gives its run
AddRun ==
    /\ f_pc = "loop"
    /\ f_parts # <<>>
    /\ f_runs' = Append(f_runs, PartRun(Head(f_parts)))
    /\ f_parts' = Tail(f_parts)
    /\ UNCHANGED <<f_text, f_pc, outsideInline>>

\* line 98: the for loop has no part left
ReturnRuns ==
    /\ f_pc = "loop"
    /\ f_parts = <<>>
    /\ f_pc' = "done"
    /\ UNCHANGED <<f_text, f_parts, f_runs, outsideInline>>

NextInline ==
    \/ SplitText
    \/ AddRun
    \/ ReturnRuns

SpecInline == InitInline /\ [][NextInline]_vars

(***************************************************************************)
(* _is_markdown_table_separator on its own (report_generator.py:66-89)     *)
(***************************************************************************)
MaxSepLen == 5

SeparatorChars == {"|", "-", ":", " ", "a"}

\* the separator rows of the prompt's example and of the usual tables
SeparatorSamples ==
    { <<"|", "-", "-", "-", "|", ":", "-", "-", ":", "|">>,
      <<" ", "|", " ", "-", "-", "-", " ", "|", " ", ":", "-", ":", " ", "|", " ">>,
      <<"|", "-", "-", "-", "-", "|", "-", "-", "-", "-", "|", "-", "-", "-", "-", "|">>,
      <<"|", "-", "-", "-", "|", "-", "-", "-", ":", "|">> }

SeparatorLines ==
    UNION { [1..n -> SeparatorChars] : n \in 0..MaxSepLen } \cup SeparatorSamples

InitSeparator ==
    /\ s_line \in SeparatorLines
    /\ s_result = "none"
    /\ CellsOff
    /\ TablesOff
    /\ RenderOff
    /\ InlineOff
    /\ SessionOff
    /\ ExtractOff

\* lines 66-89: s_result = _is_markdown_table_separator(s_line)
CheckSeparator ==
    /\ s_result = "none"
    /\ s_result' = IF is_markdown_table_separator(s_line) THEN "True" ELSE "False"
    /\ UNCHANGED <<s_line, outsideSeparator>>

NextSeparator == CheckSeparator

SpecSeparator == InitSeparator /\ [][NextSeparator]_vars

(***************************************************************************)
(* The chat session of main (chatbot_app.py:412-526) with                  *)
(* ask_preset_questions (28-66)                                            *)
(***************************************************************************)
MaxPreset == 2
MaxQueries == 1

\* a string or None
Some(s) == [some |-> TRUE, s |-> s]

None == [some |-> FALSE, s |-> <<>>]

\* the truth value of a string or None
Truthy(x) == x.some /\ x.s # <<>>

\* x or default
OrElse(x, default) == IF Truthy(x) THEN x.s ELSE default

\* settings.PRESET_FINANCIAL_QUESTIONS: the categories with their questions,
\* the first MaxPreset of them, the questions cut short
PRESET_FINANCIAL_QUESTIONS ==
    LET all == << [category |-> <<"L", "i", "a", "b", "i", "l", "i", "t", "y", " ", "O", "v",
                                  "e", "r", "v", "i", "e", "w">>,
                   questions |-> <<<<"W", "h", "a", "t", " ", "a", "r", "e", " ", "t", "h", "e",
                                     " ", "c", "o", "m", "p", "a", "n", "y", "'", "s", " ", "t",
                                     "o", "t", "a", "l", " ", "l", "i", "a", "b", "i", "l", "i",
                                     "t", "i", "e", "s", "?">>>>],
                  [category |-> <<"D", "e", "b", "t", " ", "C", "h", "a", "r", "a", "c", "t",
                                  "e", "r", "i", "s", "t", "i", "c", "s">>,
                   questions |-> <<<<"H", "o", "w", " ", "a", "r", "e", " ", "t", "h", "e", " ",
                                     "c", "o", "m", "p", "a", "n", "y", "'", "s", " ", "d", "e",
                                     "b", "t", " ", "i", "n", "s", "t", "r", "u", "m", "e", "n",
                                     "t", "s", " ", "s", "t", "r", "u", "c", "t", "u", "r", "e",
                                     "d", "?">>>>],
                  [category |-> <<"L", "e", "a", "s", "e", " ", "O", "b", "l", "i", "g", "a",
                                  "t", "i", "o", "n", "s">>,
                   questions |-> <<<<"W", "h", "a", "t", " ", "a", "r", "e", " ", "t", "h", "e",
                                     " ", "c", "o", "m", "p", "a", "n", "y", "'", "s", " ", "l",
                                     "e", "a", "s", "e", " ", "l", "i", "a", "b", "i", "l", "i",
                                     "t", "i", "e", "s", "?">>>>],
                  [category |-> <<"I", "n", "t", "e", "r", "e", "s", "t", " ", "R", "a", "t",
                                  "e", " ", "R", "i", "s", "k", " ", "H", "e", "d", "g", "i",
                                  "n", "g">>,
                   questions |-> <<<<"I", "s", " ", "t", "h", "e", " ", "c", "o", "m", "p", "a",
                                     "n", "y", " ", "e", "x", "p", "o", "s", "e", "d", " ", "t",
                                     "o", " ", "i", "n", "t", "e", "r", "e", "s", "t", " ", "r",
                                     "a", "t", "e", " ", "r", "i", "s", "k", "?">>>>],
                  [category |-> <<"C", "u", "r", "r", "e", "n", "c", "y", " ", "R", "i", "s",
                                  "k", " ", "H", "e", "d", "g", "i", "n", "g">>,
                   questions |-> <<<<"D", "o", "e", "s", " ", "t", "h", "e", " ", "c", "o", "m",
                                     "p", "a", "n", "y", " ", "h", "e", "d", "g", "e", " ", "f",
                                     "o", "r", "e", "i", "g", "n", " ", "e", "x", "c", "h", "a",
                                     "n", "g", "e", " ", "r", "i", "s", "k", "?">>>>] >>
    IN  SubSeq(all, 1, IF MaxPreset < Len(all) THEN MaxPreset ELSE Len(all))

RECURSIVE PresetPairs(_)
\* the (category, i, question) of the nested loops of lines 38-40, in order
PresetPairs(categories) ==
    IF categories = <<>> THEN <<>>
    ELSE [k \in 1..Len(Head(categories).questions) |->
              [category |-> Head(categories).category, i |-> k - 1,
               question |-> Head(categories).questions[k]]]
             \o PresetPairs(Tail(categories))

\* str(i + 1) for the positions of the model
DecimalText(n) == <<DigitChars[n + 1]>>

\* lines 52, 56, 61: f"Preset Question ({category} - {i+1}): {question}"
PresetQueryText(p) ==
    <<"P", "r", "e", "s", "e", "t", " ", "Q", "u", "e", "s", "t",
      "i", "o", "n", " ", "(">> \o p.category \o <<" ", "-", " ">> \o DecimalText(p.i + 1)
        \o <<")", ":", " ">> \o p.question

\* lines 487, 491, 496: f"You: {user_query}"
UserQueryText(user_query) == <<"Y", "o", "u", ":", " ">> \o user_query

\* "Chatbot: "
ChatbotPrefix == <<"C", "h", "a", "t", "b", "o", "t", ":", " ">>

\* what gemini_service.generate_chat_response does with a query: it returns
\* (response, error message) or raises an exception with a message
Returns(llm_response, error_message) ==
    [raises |-> FALSE, llm_response |-> llm_response, error_message |-> error_message,
     e |-> <<>>]

Raises(e) == [raises |-> TRUE, llm_response |-> None, error_message |-> None, e |-> e]

\* a response in Markdown that begins with a table: a table of a header
\* alone, a list item, the table again
MarkdownResponse ==
    JoinLines(<<LineKinds[2], LineKinds[1], LineKinds[5], LineKinds[2], LineKinds[1]>>)

\* the answers of the service: a response in Markdown, an empty response,
\* an error with and without message, an exception
LlmOutcomes ==
    { Returns(Some(MarkdownResponse), None),
      Returns(Some(<<>>), None),
      Returns(None, Some(<<"A", "P", "I", " ", "e", "r", "r", "o", "r">>)),
      Returns(None, None),
      Raises(<<"t", "i", "m", "e", "o", "u", "t">>) }

\* lines 50-61: the response text of a preset question
PresetResponseText(outcome) ==
    IF outcome.raises
    THEN <<"A", "n", " ", "u", "n", "e", "x", "p", "e", "c", "t", "e",
           "d", " ", "c", "r", "i", "t", "i", "c", "a", "l", " ", "e",
           "r", "r", "o", "r", " ", "o", "c", "c", "u", "r", "r", "e",
           "d", ":", " ">> \o outcome.e
    ELSE IF Truthy(outcome.llm_response)
    THEN outcome.llm_response.s
    ELSE <<"S", "o", "r", "r", "y", ",", " ", "I", " ", "e", "n", "c",
           "o", "u", "n", "t", "e", "r", "e", "d", " ", "a", "n", " ",
           "e", "r", "r", "o", "r", " ", "p", "r", "o", "c", "e", "s",
           "s", "i", "n", "g", " ", "t", "h", "i", "s", " ", "p", "r",
           "e", "s", "e", "t", " ", "q", "u", "e", "s", "t", "i", "o",
           "n", ".", " ">> \o OrElse(outcome.error_message, <<>>)

\* lines 485-496: the response text of a query of the user
ChatResponseText(outcome) ==
    IF outcome.raises
    THEN <<"[", "C", "r", "i", "t", "i", "c", "a", "l", " ", "E", "r",
           "r", "o", "r", "]">>
    ELSE IF Truthy(outcome.llm_response)
    THEN outcome.llm_response.s
    ELSE <<"S", "o", "r", "r", "y", ",", " ", "I", " ", "e", "n", "c",
           "o", "u", "n", "t", "e", "r", "e", "d", " ", "a", "n", " ",
           "e", "r", "r", "o", "r", ".", " ">> \o OrElse(outcome.error_message, <<"P", "l", "e", "a", "s", "e", " ", "t", "r", "y", " ", "a",
                                                                                  "g", "a", "i", "n", ".">>)

\* lines 52, 56, 61, 487, 491, 496: chat_history.append((query, response))
AppendTurn_ReplaceLast(history, user_query, response) ==
    IF history = <<>>
    THEN <<Turn(user_query, ChatbotPrefix \o response)>>
    ELSE [history EXCEPT ![Len(history)] = Turn(user_query, ChatbotPrefix \o response)]

AppendTurn(history, user_query, response) ==
    Append(history, Turn(user_query, ChatbotPrefix \o response))

\* what the user types at the prompt "You: "
UserInputs == { <<>>, <<" ">>, <<" ", "q", " ">>, <<"e", "x", "i", "t">>, <<"Q", "u", "i", "t", " ">> }

\* the PDFs of the company folder
PdfPaths == <<"2022.pdf", "2023.pdf">>

\* select_analysis_pdfs (lines 135-149): one PDF ("single") or all ("multi")
PdfSelections == { <<PdfPaths[1]>>, PdfPaths }

\* the files of a map, as a set
FilesOf(map) == { map[k] : k \in 1..Len(map) }

\* line 412: chat_history = []
InitSession ==
    /\ c_pc = "setup"
    /\ uploaded = FALSE
    /\ p_idx = 0
    /\ llm_calls = 0
    /\ pdf_files_for_chat = <<>>
    /\ pdf_idx = 0
    /\ uploaded_files_map = <<>>
    /\ uploaded_pdf_files_map = <<>>
    /\ service_files = {}
    /\ delete_calls = {}
    /\ RenderOff
    /\ CellsOff
    /\ TablesOff
    /\ InlineOff
    /\ ExtractOff
    /\ SeparatorOff

\* lines 414-433: the service is created, the PDFs are selected and the
\* tables extracted; the selection may be cancelled, the service may fail
Setup ==
    /\ c_pc = "setup"
    /\ \E outcome \in {"selected", "no context", "cancelled", "failed"} :
           IF outcome = "selected"
           THEN /\ pdf_files_for_chat' \in PdfSelections
                /\ c_pc' = "upload"
           ELSE /\ c_pc' = IF outcome = "no context" THEN "prompt" ELSE "finally"
                /\ UNCHANGED pdf_files_for_chat
    /\ UNCHANGED <<uploaded, p_idx, llm_calls, pdf_idx, uploaded_files_map,
                   uploaded_pdf_files_map, service_files, delete_calls, outsideSession>>

\* upload_pdfs_for_chat, lines 352-369: one PDF is uploaded, or the upload
\* fails and the PDF is left out
UploadForChat ==
    /\ c_pc = "upload"
    /\ pdf_idx < Len(pdf_files_for_chat)
    /\ \E error \in BOOLEAN :
           IF error
           THEN UNCHANGED <<uploaded_files_map, service_files>>
           ELSE /\ uploaded_files_map' = Append(uploaded_files_map, pdf_files_for_chat[pdf_idx + 1])
                /\ service_files' = service_files \cup {pdf_files_for_chat[pdf_idx + 1]}
    /\ pdf_idx' = pdf_idx + 1
    /\ UNCHANGED <<c_pc, uploaded, p_idx, llm_calls, pdf_files_for_chat, uploaded_pdf_files_map,
                   delete_calls, outsideSession>>

\* lines 371 and 434-437: upload_pdfs_for_chat returns its map to main
ReturnUploads ==
    /\ c_pc = "upload"
    /\ pdf_idx = Len(pdf_files_for_chat)
    /\ uploaded_pdf_files_map' = uploaded_files_map
    /\ uploaded' = (uploaded_files_map # <<>>)
    /\ c_pc' = "prompt"
    /\ UNCHANGED <<p_idx, llm_calls, pdf_files_for_chat, pdf_idx, uploaded_files_map,
                   service_files, delete_calls, outsideSession>>

\* lines 436-439 with prompt_for_next_action (373-391)
ChooseNextAction ==
    /\ c_pc = "prompt"
    /\ \E next_action \in IF uploaded THEN {"preset", "interactive", "exit"}
                                      ELSE {"interactive"} :
           c_pc' = CASE next_action = "exit" -> "finally"
                     [] next_action = "preset" -> "preset"
                     [] OTHER -> "chat"
    /\ UNCHANGED <<uploaded, p_idx, llm_calls, uploadVars, outsideSession>>

\* lines 38-63: the next preset question is sent and its turn recorded
AskPresetQuestion ==
    /\ c_pc = "preset"
    /\ uploaded
    /\ p_idx < Len(PresetPairs(PRESET_FINANCIAL_QUESTIONS))
    /\ \E outcome \in LlmOutcomes :
           chat_history' = AppendTurn(chat_history,
                               PresetQueryText(PresetPairs(PRESET_FINANCIAL_QUESTIONS)[p_idx + 1]),
                               PresetResponseText(outcome))
    /\ llm_calls' = llm_calls + 1
    /\ p_idx' = p_idx + 1
    /\ UNCHANGED <<c_pc, uploaded, uploadVars, turn, response_lines, i, doc, r_raised, r_pc,
                   cellVars, tableVars, inlineVars, extractVars, separatorVars>>

\* lines 65-66 and 441-452: the preset questions are done, the user goes on
\* to the chat or leaves
AfterPreset ==
    /\ c_pc = "preset"
    /\ ~(p_idx < Len(PresetPairs(PRESET_FINANCIAL_QUESTIONS)))
    /\ \E continue_choice \in {"yes", "no"} :
           c_pc' = IF continue_choice = "yes" THEN "chat" ELSE "finally"
    /\ UNCHANGED <<uploaded, p_idx, llm_calls, uploadVars, outsideSession>>

\* lines 466-496: one round of the chat loop
ChatRound ==
    /\ c_pc = "chat"
    /\ \E typed \in UserInputs :
           LET user_query == Strip(typed)
           IN  IF user_query = <<>>
               THEN UNCHANGED <<c_pc, chat_history, llm_calls>>
               ELSE IF Lower(user_query) \in {<<"e", "x", "i", "t">>, <<"q", "u", "i", "t">>}
               THEN /\ c_pc' = "finally"
                    /\ UNCHANGED <<chat_history, llm_calls>>
               ELSE IF ~uploaded
               THEN UNCHANGED <<c_pc, chat_history, llm_calls>>
               ELSE /\ llm_calls - p_idx < MaxQueries
                    /\ \E outcome \in LlmOutcomes :
                           chat_history' = AppendTurn(chat_history,
                                               UserQueryText(user_query),
                                               ChatResponseText(outcome))
                    /\ llm_calls' = llm_calls + 1
                    /\ UNCHANGED c_pc
    /\ UNCHANGED <<uploaded, p_idx, uploadVars, turn, response_lines, i, doc, r_raised, r_pc,
                   cellVars, tableVars, inlineVars, extractVars, separatorVars>>

\* lines 501-506: Ctrl+C or an exception ends the try block from wherever
\* it is, the loop of upload_pdfs_for_chat included
Interrupted ==
    /\ c_pc \in {"upload", "prompt", "preset", "chat"}
    /\ c_pc' = "finally"
    /\ UNCHANGED <<uploaded, p_idx, llm_calls, uploadVars, outsideSession>>

\* a variant of lines 507-517 that writes the transcript of no turn too
Finally_AlwaysTranscript ==
    /\ c_pc = "finally"
    /\ c_pc' = "transcript"
    /\ doc' = Preamble
    /\ r_pc' = "turn"
    /\ UNCHANGED <<uploaded, p_idx, llm_calls, uploadVars, chat_history, turn, response_lines,
                   i, r_raised, cellVars, tableVars, inlineVars, extractVars, separatorVars>>

\* lines 507-517: the transcript is written when there is a turn
Finally ==
    /\ c_pc = "finally"
    /\ IF chat_history # <<>>
       THEN /\ c_pc' = "transcript"
            /\ doc' = Preamble
            /\ r_pc' = "turn"
       ELSE /\ c_pc' = "cleanup"
            /\ UNCHANGED <<doc, r_pc>>
    /\ UNCHANGED <<uploaded, p_idx, llm_calls, uploadVars, chat_history, turn, response_lines,
                   i, r_raised, cellVars, tableVars, inlineVars, extractVars, separatorVars>>

\* line 517: generate_chat_transcript has returned
TranscriptReturns ==
    /\ c_pc = "transcript"
    /\ r_pc \in {"done", "save failed"}
    /\ c_pc' = "cleanup"
    /\ UNCHANGED <<uploaded, p_idx, llm_calls, uploadVars, outsideSession>>

\* lines 519-526: _delete_file is called with every file of main's map; a
\* deletion that fails is logged and the file stays on the service
Cleanup ==
    /\ c_pc = "cleanup"
    /\ IF uploaded_pdf_files_map # <<>>
       THEN /\ delete_calls' = delete_calls \cup FilesOf(uploaded_pdf_files_map)
            /\ \E failed \in SUBSET FilesOf(uploaded_pdf_files_map) :
                   service_files' = service_files \ (FilesOf(uploaded_pdf_files_map) \ failed)
       ELSE UNCHANGED <<delete_calls, service_files>>
    /\ c_pc' = "ended"
    /\ UNCHANGED <<uploaded, p_idx, llm_calls, pdf_files_for_chat, pdf_idx, uploaded_files_map,
                   uploaded_pdf_files_map, outsideSession>>

NextSession ==
    \/ Setup
    \/ UploadForChat
    \/ ReturnUploads
    \/ ChooseNextAction
    \/ AskPresetQuestion
    \/ AfterPreset
    \/ ChatRound
    \/ Interrupted
    \/ Finally
    \/ NextRender
    \/ TranscriptReturns
    \/ Cleanup

SpecSession == InitSession /\ [][NextSession]_vars

(***************************************************************************)
(* extract_tables_from_pdf (gemini_service.py:62-149) and its caller       *)
(* handle_table_extraction (chatbot_app.py:308-334), for one PDF.          *)
(***************************************************************************)
\* the values the response gives under one key: not a list, [], [[]],
\* [["Table Not Found"]], a header alone, a header with a row, a list whose
\* first element is not a list, a header with a row that is not a list
ExtractSamples ==
    { NonListTable,
      ListTable(<<>>),
      ListTable(<<ListRow(<<>>)>>),
      ListTable(<<ListRow(<<Str(TableNotFoundText)>>)>>),
      ListTable(<<ListRow(HeaderOfWidth(1))>>),
      ListTable(<<ListRow(HeaderOfWidth(1)), ListRow(<<Str(<<" ", "(", "1", ")">>)>>)>>),
      ListTable(<<NonListRow>>),
      ListTable(<<ListRow(HeaderOfWidth(1)), NonListRow>>) }

\* the key is not in the object
Absent == [isList |-> FALSE, rows |-> <<"absent">>]

\* a key that is no target table
OtherTable == [name |-> TableNames[1], data |-> ListTable(<<ListRow(HeaderOfWidth(1))>>)]

\* the JSON object that gives f[k] under the k-th target table
JsonObjectOf(f, extra) ==
    [kind |-> "object",
     items |-> SelectSeq([k \in 1..Len(TARGET_TABLES) |->
                              [name |-> TARGET_TABLES[k], data |-> f[k]]],
                         LAMBDA item : item.data # Absent)
                   \o (IF extra THEN <<OtherTable>> ELSE <<>>)]

\* response.text: no JSON, a JSON number, a JSON array of no names (the keys
\* are then looked up in a list), a JSON object
LlmResponses ==
    { [kind |-> "invalid", items |-> <<>>],
      [kind |-> "number", items |-> <<>>],
      [kind |-> "array", items |-> <<>>] }
        \cup { JsonObjectOf(f, extra) :
                   f \in [1..Len(TARGET_TABLES) -> ExtractSamples \cup {Absent}],
                   extra \in BOOLEAN }

\* [["Table Data Malformed by LLM"]]
TableMalformed ==
    ListTable(<<ListRow(<<Str(<<"T", "a", "b", "l", "e", " ", "D", "a", "t", "a", " ",
                               "M", "a", "l", "f", "o", "r", "m", "e", "d", " ",
                               "b", "y", " ", "L", "L", "M">>)>>)>>)

\* [["Table Not Found in LLM Response"]]
TableNotInResponse ==
    ListTable(<<ListRow(<<Str(TableNotFoundText \o
                              <<" ", "i", "n", " ", "L", "L", "M", " ",
                                "R", "e", "s", "p", "o", "n", "s", "e">>)>>)>>)

\* table_name in extracted_data
HasKey(data, table_name) ==
    \E k \in 1..Len(data.items) : data.items[k].name = table_name

\* extracted_data[table_name]
ValueOf(data, table_name) ==
    data.items[CHOOSE k \in 1..Len(data.items) : data.items[k].name = table_name].data

\* a variant of lines 121-130 that hands on every list
Validated_AnyList(data, table_name) ==
    IF HasKey(data, table_name) /\ ValueOf(data, table_name).isList
    THEN ValueOf(data, table_name)
    ELSE TableNotInResponse

\* lines 121-130: the value stored under one target table
Validated(data, table_name) ==
    IF HasKey(data, table_name) /\ ValueOf(data, table_name).isList
    THEN LET table == ValueOf(data, table_name)
         IN  IF table.rows = <<>> \/ table.rows[1].isList
             THEN table
             ELSE TableMalformed
    ELSE TableNotInResponse

InitExtract ==
    /\ extracted_data = NoResponse
    /\ validated_data = <<>>
    /\ x_idx = 0
    /\ x_error = FALSE
    /\ x_pc = "upload"
    /\ uploaded_file = FALSE
    /\ x_service_file = FALSE
    /\ x_delete_called = FALSE
    /\ pdfs_to_process \in PdfSelections
    /\ pdf_no = 1
    /\ extraction_log_entries = <<>>
    /\ CellsOff
    /\ TablesOff
    /\ RenderOff
    /\ InlineOff
    /\ SessionOff
    /\ SeparatorOff

\* the variables the steps between upload and return leave alone
fileVars == <<uploaded_file, x_service_file, x_delete_called>>

\* the variables of the loop of handle_table_extraction
loopVars == <<pdfs_to_process, pdf_no, extraction_log_entries>>

\* _upload_pdf (lines 27-50) as called at lines 67-69: genai.upload_file
\* raises and no file is created; or the file is created and then becomes
\* ACTIVE, or FAILED, or genai.get_file raises while the state is polled
UploadPdf ==
    /\ x_pc = "upload"
    /\ \E outcome \in {"upload raises", "ACTIVE", "FAILED", "polling raises"} :
          /\ x_service_file' = (outcome # "upload raises")
          /\ uploaded_file' = (outcome = "ACTIVE")
          /\ IF outcome = "ACTIVE"
             THEN x_pc' = "generate" /\ UNCHANGED x_error
             ELSE x_error' = TRUE /\ x_pc' = "finally"
    /\ UNCHANGED <<extracted_data, validated_data, x_idx, x_delete_called, tableVars,
                   loopVars, outsideExtract>>

\* lines 109-111, 143-146: the model answers or the call raises
GenerateContent ==
    /\ x_pc = "generate"
    /\ \/ \E response \in LlmResponses :
             /\ extracted_data' = response
             /\ x_pc' = "parse"
             /\ UNCHANGED x_error
       \/ /\ x_error' = TRUE
          /\ x_pc' = "finally"
          /\ UNCHANGED extracted_data
    /\ UNCHANGED <<validated_data, x_idx, fileVars, tableVars, loopVars, outsideExtract>>

\* lines 117, 134-137: json.loads raises JSONDecodeError
JsonDecodeError ==
    /\ x_pc = "parse"
    /\ extracted_data.kind = "invalid"
    /\ x_error' = TRUE
    /\ x_pc' = "finally"
    /\ UNCHANGED <<extracted_data, validated_data, x_idx, fileVars, tableVars, loopVars, outsideExtract>>

\* lines 117-119: the text is JSON
JsonLoads ==
    /\ x_pc = "parse"
    /\ extracted_data.kind # "invalid"
    /\ x_pc' = "validate"
    /\ UNCHANGED <<extracted_data, validated_data, x_idx, x_error, fileVars, tableVars,
                   loopVars, outsideExtract>>

\* lines 121, 138-141: the membership test raises TypeError on a number
ValidationRaises ==
    /\ x_pc = "validate"
    /\ x_idx < Len(TARGET_TABLES)
    /\ extracted_data.kind = "number"
    /\ x_error' = TRUE
    /\ x_pc' = "finally"
    /\ UNCHANGED <<extracted_data, validated_data, x_idx, fileVars, tableVars, loopVars, outsideExtract>>

\* lines 120-130: one target table
ValidateTable ==
    /\ x_pc = "validate"
    /\ x_idx < Len(TARGET_TABLES)
    /\ extracted_data.kind \in {"object", "array"}
    /\ LET table_name == TARGET_TABLES[x_idx + 1]
       IN  validated_data' =
               Append(validated_data,
                      [name |-> table_name, data |-> Validated(extracted_data, table_name)])
    /\ x_idx' = x_idx + 1
    /\ UNCHANGED <<extracted_data, x_error, x_pc, fileVars, tableVars, loopVars, outsideExtract>>

\* lines 132-133: return validated_data, None
ReturnValidated ==
    /\ x_pc = "validate"
    /\ x_idx = Len(TARGET_TABLES)
    /\ x_pc' = "finally"
    /\ UNCHANGED <<extracted_data, validated_data, x_idx, x_error, fileVars, tableVars,
                   loopVars, outsideExtract>>

\* lines 147-149 with _delete_file (52-60): the file in uploaded_file is
\* deleted before the call returns; a deletion that fails is logged
DeleteUploaded ==
    /\ x_pc = "finally"
    /\ IF uploaded_file
       THEN /\ x_delete_called' = TRUE
            /\ \E deleted \in BOOLEAN : x_service_file' = (x_service_file /\ ~deleted)
       ELSE UNCHANGED <<x_delete_called, x_service_file>>
    /\ x_pc' = "returned"
    /\ UNCHANGED <<extracted_data, validated_data, x_idx, x_error, uploaded_file, tableVars,
                   loopVars, outsideExtract>>

\* a log entry of handle_table_extraction (lines 316-332), without the
\* processing time and the message
LogEntry(pdf_filename, status, extracted_tables) ==
    [pdf_filename |-> pdf_filename, status |-> status, extracted_tables |-> extracted_tables]

\* chatbot_app.py line 325: the names whose data is not empty and is not
\* [["Table Not Found"]]
ExtractedNames(data) ==
    LET kept == SelectSeq(data, LAMBDA item :
                    item.data.rows # <<>> /\ item.data # ListTable(<<ListRow(<<Str(TableNotFoundText)>>)>>))
    IN  [k \in 1..Len(kept) |-> kept[k].name]

\* chatbot_app.py lines 318-320, 331-334: the error is logged
LogFailure ==
    /\ x_pc = "returned"
    /\ x_error \/ validated_data = <<>>
    /\ extraction_log_entries' =
           Append(extraction_log_entries, LogEntry(pdfs_to_process[pdf_no], "Failure", <<>>))
    /\ x_pc' = "logged"
    /\ UNCHANGED <<extracted_data, validated_data, x_idx, x_error, fileVars, pdfs_to_process,
                   pdf_no, tableVars, outsideExtract>>

\* chatbot_app.py lines 321-323: save_tables_to_excel(excel_file_path,
\* extracted_data, pdf_filename)
SaveExtracted ==
    /\ x_pc = "returned"
    /\ ~x_error
    /\ validated_data # <<>>
    /\ tables_data' = validated_data
    /\ t_pc' = "loop"
    /\ x_pc' = "saving"
    /\ UNCHANGED <<extracted_data, validated_data, x_idx, x_error, fileVars, loopVars, t_idx,
                   sheets_to_write, log, excel_file, raised, outsideExtract>>

\* chatbot_app.py lines 325-334: save_tables_to_excel has returned, the
\* entry of the PDF is appended
LogExtracted ==
    /\ x_pc = "saving"
    /\ t_pc = "done"
    /\ LET extracted_names == ExtractedNames(validated_data)
       IN  extraction_log_entries' =
               Append(extraction_log_entries,
                      LogEntry(pdfs_to_process[pdf_no],
                               IF extracted_names # <<>> THEN "Success"
                               ELSE "Partial Success (No Tables Found)",
                               IF extracted_names # <<>> THEN extracted_names
                               ELSE <<"None">>))
    /\ x_pc' = "logged"
    /\ UNCHANGED <<extracted_data, validated_data, x_idx, x_error, fileVars, pdfs_to_process,
                   pdf_no, tableVars, outsideExtract>>

\* chatbot_app.py line 308: the loop goes on with the next PDF
NextPdf ==
    /\ x_pc = "logged"
    /\ pdf_no < Len(pdfs_to_process)
    /\ pdf_no' = pdf_no + 1
    /\ extracted_data' = NoResponse
    /\ validated_data' = <<>>
    /\ x_idx' = 0
    /\ x_error' = FALSE
    /\ uploaded_file' = FALSE
    /\ x_service_file' = FALSE
    /\ x_delete_called' = FALSE
    /\ x_pc' = "upload"
    /\ tables_data' = <<>>
    /\ t_idx' = 0
    /\ sheets_to_write' = <<>>
    /\ log' = <<>>
    /\ excel_file' = NoFile
    /\ raised' = FALSE
    /\ t_pc' = "off"
    /\ UNCHANGED <<pdfs_to_process, extraction_log_entries, outsideExtract>>

\* chatbot_app.py lines 337-342: the log of the session is written
SaveExtractionLog ==
    /\ x_pc = "logged"
    /\ pdf_no = Len(pdfs_to_process)
    /\ x_pc' = "log saved"
    /\ UNCHANGED <<extracted_data, validated_data, x_idx, x_error, fileVars, loopVars,
                   tableVars, outsideExtract>>

NextExtract ==
    \/ UploadPdf
    \/ GenerateContent
    \/ JsonDecodeError
    \/ JsonLoads
    \/ ValidationRaises
    \/ ValidateTable
    \/ ReturnValidated
    \/ DeleteUploaded
    \/ LogFailure
    \/ SaveExtracted
    \/ NextTables
    \/ LogExtracted
    \/ NextPdf
    \/ SaveExtractionLog

SpecExtract == InitExtract /\ [][NextExtract]_vars

(***************************************************************************)
(* Properties of _clean_and_convert_to_numeric, under SpecCell.            *)
(***************************************************************************)
\* C5: the rules apply in order and the first applicable one decides: a
\* value that is not a string comes back unchanged; a string that is empty
\* after trimming, or "n/a" / "not applicable" in any case, gives Blank;
\* otherwise a lone '-', en dash or em dash gives the number 0; only
\* otherwise is the numeric parse attempted (a number, or the input back).
\* "N/A" is Blank and "$1,234.56" is 1234.56.
C5_RulesInOrder ==
    cleaned # Unset =>
        /\ ~IsStr(value) => cleaned = value
        /\ IsStr(value) =>
            LET s == Strip(value.s)
            IN  IF s = <<>> \/ Lower(s) \in
                     { <<"n", "/", "a">>,
                       <<"n", "o", "t", " ", "a", "p", "p", "l", "i", "c", "a", "b", "l", "e">> }
                THEN cleaned = Blank
                ELSE IF s \in { <<"-">>, <<"U+2013">>, <<"U+2014">> }
                THEN cleaned = Float(FALSE, 0, 0)
                ELSE cleaned = value \/ cleaned.t \in {"float", "inf", "nan"}
        /\ value = Str(<<"$", "1", ",", "2", "3", "4", ".", "5", "6">>)
               => cleaned = Float(FALSE, 123456, -2)
        /\ value = Str(<<"N", "/", "A">>) => cleaned = Blank

C5_Witness ==
    /\ value = Str(<<"$", "1", ",", "2", "3", "4", ".", "5", "6">>)
    /\ cleaned = Float(FALSE, 123456, -2)

\* the text between the parentheses of a trimmed "(" body ")", without the
\* currency symbols and commas
ParenBody(v) ==
    LET s == Strip(v.s)
    IN  RemoveChars(SubSeq(s, 2, Len(s) - 1), {"$", ",", "U+20AC"})

IsWrapped(v) ==
    LET s == Strip(v.s)
    IN  IsStr(v) /\ Len(s) >= 2 /\ s[1] = "(" /\ s[Len(s)] = ")"

\* C6 as stated: whenever the body of "(" body ")" parses as a number n, the
\* result is the number -n.
C6_AnyBodyNegated ==
    (cleaned # Unset /\ IsWrapped(value) /\ ParseFloat(ParenBody(value)).ok)
        => cleaned = Negate(ParseFloat(ParenBody(value)).val)

\* C6, amended: when the body of "(" body ")", without currency symbols and
\* commas, parses as a number n and does not begin with a sign or with
\* whitespace, the result is the number -n; when it begins with a sign or
\* with whitespace the parse fails and the input comes back unchanged.
C6_UnsignedBodyNegated ==
    (cleaned # Unset /\ IsWrapped(value) /\ ParseFloat(ParenBody(value)).ok)
        => IF ParenBody(value)[1] \in {"+", "-"} \cup WhitespaceChars
           THEN cleaned = value
           ELSE cleaned = Negate(ParseFloat(ParenBody(value)).val)

C6_Witness ==
    /\ value = Str(<<"(", "$", "8", "0", "0", ",", "0", "0", "0", ")">>)
    /\ cleaned = Float(TRUE, 8, 5)

\* the text the numeric parse is applied to: trimmed, parentheses turned
\* into a minus sign, currency symbols and commas removed
ParsedText(v) ==
    LET s == Strip(v.s)
        signed == IF Len(s) >= 2 /\ s[1] = "(" /\ s[Len(s)] = ")"
                  THEN <<"-">> \o SubSeq(s, 2, Len(s) - 1)
                  ELSE s
    IN  RemoveChars(signed, {"$", ",", "U+20AC"})

\* C7: when the numeric parse of a string fails, the result is the input
\* string itself, character for character.
C7_FailureReturnsOriginal ==
    /\ (cleaned # Unset /\ IsStr(value) /\ Strip(value.s) # <<>>
            /\ ~ParseFloat(ParsedText(value)).ok
            /\ Strip(value.s) \notin {<<"-">>, <<"U+2013">>, <<"U+2014">>}
            /\ Lower(Strip(value.s)) \notin
                 { <<"n", "/", "a">>,
                   <<"n", "o", "t", " ", "a", "p", "p", "l", "i", "c", "a", "b", "l", "e">> })
        => cleaned = value
    /\ (cleaned # Unset /\ value = Str(<<"F", "Y", "2", "0", "2", "3">>))
        => cleaned = value

C7_Witness ==
    /\ value = Str(<<" ", "F", "Y", "2", "0", "2", "3", " ">>)
    /\ cleaned = value

\* C8: cleaning is idempotent: cleaning the result again gives the result.
C8_Idempotent == recleaned # Unset => recleaned = cleaned

C8_Witness ==
    /\ value = Str(<<"(", "7", "8", "9", ")">>)
    /\ cleaned = Float(TRUE, 789, 0)
    /\ recleaned = cleaned

(***************************************************************************)
(* Properties of save_tables_to_excel, under SpecTables.                   *)
(***************************************************************************)
\* the k-th table of the set has been handled by the loop
Handled == 1..t_idx

\* the raw table has no header row: not a list, empty, or row 0 not a list
MissingHeader(d) == ~d.isList \/ d.rows = <<>> \/ ~d.rows[1].isList

EmptyHeader(d) == ~MissingHeader(d) /\ d.rows[1].cells = <<>>

\* [["Table Not Found"]]
NotFoundSentinel(d) ==
    /\ ~MissingHeader(d)
    /\ Len(d.rows) = 1
    /\ d.rows[1].cells = <<Str(TableNotFoundText)>>

NoDataRows(d) == ~MissingHeader(d) /\ Len(d.rows) = 1

\* a skip of the table was logged
Skipped(k) ==
    \E m \in 1..Len(log) :
        log[m].level = "warning" /\ log[m].table = tables_data[k].name

\* pandas rejected the cleaned table
Rejected(k) ==
    \E m \in 1..Len(log) :
        log[m].level = "error" /\ log[m].table = tables_data[k].name

HasSheet(k) == DictHas(sheets_to_write, SafeSheetName(tables_data[k].name))

SheetOf(k) == DictGet(sheets_to_write, SafeSheetName(tables_data[k].name))

\* no table handled after the k-th one has been given the same sheet name
LastOfItsSheet(k) ==
    \A m \in Handled :
        (m > k /\ SafeSheetName(tables_data[m].name) = SafeSheetName(tables_data[k].name))
            => Skipped(m) \/ Rejected(m)

\* C1: in every sheet, every processed row has exactly as many cells as the
\* header of its table (at least one), whatever the width of the input row
\* (0, less, equal, more) and also for an input row that is not a list.
C1_RowWidthIsHeaderWidth ==
    /\ \A n \in 1..Len(sheets_to_write) :
           LET df == sheets_to_write[n].val
           IN  /\ Len(df.columns) >= 1
               /\ \A j \in 1..Len(df.rows) : Len(df.rows[j]) = Len(df.columns)
    /\ \A k \in Handled :
           (~Skipped(k) /\ ~Rejected(k) /\ HasSheet(k) /\ LastOfItsSheet(k))
               => /\ SheetOf(k).columns = tables_data[k].data.rows[1].cells
                  /\ Len(SheetOf(k).rows) = Len(tables_data[k].data.rows) - 1

C1_Witness ==
    /\ t_idx = 1
    /\ Len(tables_data) = 1
    /\ Len(tables_data[1].data.rows) = 3
    /\ Len(tables_data[1].data.rows[1].cells) = 2
    /\ Len(tables_data[1].data.rows[2].cells) = 3
    /\ ~tables_data[1].data.rows[3].isList
    /\ HasSheet(1)
    /\ \A j \in 1..2 : Len(SheetOf(1).rows[j]) = 2

\* C2 as stated: a table is skipped exactly when its header is missing or
\* empty or it is the not-found sentinel; every other table, one without
\* data rows included, gives a cleaned table.
C2_SkipOnlyWithoutHeader ==
    \A k \in Handled :
        LET d == tables_data[k].data
        IN  /\ Skipped(k) <=> (MissingHeader(d) \/ EmptyHeader(d) \/ NotFoundSentinel(d))
            /\ ~Skipped(k) => (HasSheet(k) \/ Rejected(k))

\* C2, amended: a table is skipped exactly when its header is missing or
\* empty, it is the not-found sentinel, or it has no data row; every other
\* table gives a cleaned table (a sheet, unless pandas rejects it).
C2_SkipAlsoWithoutRows ==
    \A k \in Handled :
        LET d == tables_data[k].data
        IN  /\ Skipped(k) <=> (MissingHeader(d) \/ EmptyHeader(d) \/ NotFoundSentinel(d)
                                  \/ NoDataRows(d))
            /\ ~Skipped(k) => (HasSheet(k) \/ Rejected(k))

C2_Witness ==
    /\ t_idx = 1
    /\ tables_data[1].data = ListTable(<<ListRow(HeaderOfWidth(1))>>)
    /\ Skipped(1)
    /\ sheets_to_write = <<>>

\* a table that gives a sheet when it is the only one of its set: a header
\* row with scalar labels and at least one data row
IndividuallyValid(d) ==
    /\ ~MissingHeader(d)
    /\ d.rows[1].cells # <<>>
    /\ \A c \in 1..Len(d.rows[1].cells) : d.rows[1].cells[c].t \notin {"list", "dict"}
    /\ Len(d.rows) >= 2

\* C3: a skipped table does not stop the loop: every handled table that is
\* individually valid has its sheet (with its header and one row per data
\* row, unless a later table took the same sheet name), whatever the other
\* tables of the set are; the loop ends only after the last table, and the
\* workbook, when written, holds all the sheets.
C3_SkipIsNotFatal ==
    /\ \A k \in Handled :
           IndividuallyValid(tables_data[k].data) =>
               /\ HasSheet(k)
               /\ LastOfItsSheet(k) =>
                      /\ SheetOf(k).columns = tables_data[k].data.rows[1].cells
                      /\ Len(SheetOf(k).rows) = Len(tables_data[k].data.rows) - 1
    /\ t_pc = "done" => t_idx = Len(tables_data)
    /\ excel_file.written => excel_file.sheets = sheets_to_write

C3_Witness ==
    /\ t_pc = "done"
    /\ Len(tables_data) = 3
    /\ MissingHeader(tables_data[1].data)
    /\ IndividuallyValid(tables_data[2].data)
    /\ NotFoundSentinel(tables_data[3].data)
    /\ HasSheet(2)
    /\ excel_file.written

\* C4: the sheet of an accepted table has one row per input data row, in
\* input order; its cell (j, c) is the cleaned input cell when the input
\* row has a cell c, and Blank when the input row is shorter (or not a
\* list); input cells beyond the header width leave no trace, and a row of
\* Blanks is kept.
C4_CellsCleanedAfterFitting ==
    \A k \in Handled :
        (~Skipped(k) /\ ~Rejected(k) /\ HasSheet(k) /\ LastOfItsSheet(k)) =>
            LET d == tables_data[k].data
                h == Len(d.rows[1].cells)
                out == SheetOf(k).rows
            IN  /\ Len(out) = Len(d.rows) - 1
                /\ \A j \in 1..Len(out) :
                       /\ Len(out[j]) = h
                       /\ \A c \in 1..h :
                              out[j][c] =
                                  IF d.rows[j + 1].isList /\ c <= Len(d.rows[j + 1].cells)
                                  THEN clean_and_convert_to_numeric(d.rows[j + 1].cells[c])
                                  ELSE Blank

C4_Witness ==
    /\ t_idx = 1
    /\ Len(tables_data) = 1
    /\ tables_data[1].data.rows =
           << ListRow(HeaderOfWidth(2)),
              ListRow(<<Str(<<" ">>)>>),
              ListRow(<<Str(<<" ", "(", "1", ")">>), Str(<<" ">>), Str(<<"x">>)>>) >>
    /\ HasSheet(1)
    /\ SheetOf(1).rows = << <<Blank, Blank>>, <<Float(TRUE, 1, 0), Blank>> >>

(***************************************************************************)
(* Claims about the transcript renderer and about both passes              *)
(***************************************************************************)
\* C9: neither pass lets an exception propagate: for every table set the
\* normalization of save_tables_to_excel returns normally, and for every
\* response the line scan of generate_chat_transcript returns normally,
\* table rows with more or fewer cells than the header included; the
\* cursors of both passes stay within what they run over
C9_NoExceptionPropagates ==
    /\ raised = FALSE
    /\ t_pc # "raised"
    /\ r_raised = FALSE
    /\ r_pc # "raised"
    /\ t_idx <= Len(tables_data)
    /\ turn <= Len(chat_history)
    /\ i <= Len(response_lines)

\* the scan has returned from a response whose table has a row of fewer
\* and a row of more cells than its header
C9_Witness ==
    /\ r_pc = "done"
    /\ chat_history = <<Turn(<<"Y", "o", "u", ":", " ", "q">>, ResponseSamples[3])>>
    /\ Len(doc) = 8
    /\ doc[7] = WordTable(<< <<<<"a">>, <<"b">>>>,
                             <<<<"c">>, <<>>>>,
                             <<<<"d">>, <<"e">>>> >>)

\* the line at the cursor is a pipe-delimited row: it starts and ends with
\* "|" after trimming
IsPipeRow(line) ==
    LET trimmed == Strip(line)
    IN  trimmed # <<>> /\ Head(trimmed) = "|" /\ trimmed[Len(trimmed)] = "|"

\* C10: at cursor i the renderer emits a table block iff line i is a
\* pipe-delimited row and line i+1 exists and is a valid separator row; any
\* other line, a pipe-delimited last line or one whose next line is no
\* separator included, is rendered by the list and paragraph rules and
\* moves the cursor by one; no line beyond i+1 takes part in the decision
C10_TableIffHeaderAndSeparator ==
    [][(r_pc = "scan" /\ i < Len(response_lines) /\ r_pc' # "raised")
        => LET line == response_lines[i + 1]
               is_table == /\ IsPipeRow(line)
                           /\ i + 2 <= Len(response_lines)
                           /\ is_markdown_table_separator(response_lines[i + 2])
           IN  /\ Len(doc') = Len(doc) + 1
               /\ doc'[Len(doc')].kind = "table" <=> is_table
               /\ ~is_table =>
                      /\ i' = i + 1
                      /\ doc'[Len(doc')] = IF ListMatch(line).matched
                                          THEN ListItem(line)
                                          ELSE PlainParagraph(line)]_vars

\* a pipe-delimited row in front of a row, a table without data rows, a
\* blank line and a pipe-delimited last line have been rendered
C10_Witness ==
    /\ r_pc = "scan"
    /\ chat_history = <<Turn(<<"Y", "o", "u", ":", " ", "q">>, ResponseSamples[4])>>
    /\ i = 5
    /\ SubSeq(doc, 7, 10) =
           << PlainParagraph(LineKinds[2]),
              WordTable(<< <<<<"d">>, <<"e">>, <<"f">>>> >>),
              PlainParagraph(<<>>),
              PlainParagraph(LineKinds[2]) >>

\* a history of one turn with the given response
OneTurn(response) == <<Turn(<<"Y", "o", "u", ":", " ", "q">>, response)>>

\* the cells of a table row of the given width read from a line: the cells
\* of the line in order, cut to the width or followed by empty cells
RowCells(line, width) ==
    LET cells == parse_markdown_table_row(line)
    IN  [c \in 1..width |-> IF c <= Len(cells) THEN cells[c] ELSE <<>>]

\* C11: when a table is detected at line i its data rows are exactly the
\* maximal run of consecutive pipe-delimited lines from line i+2 on, an
\* empty run giving a table of the header alone; the separator line gives
\* no block of its own; the cursor resumes at the first line after the run
C11_DataRowsAreMaximalRun ==
    [][(r_pc = "scan" /\ i < Len(response_lines) /\ Len(doc') > Len(doc)
            /\ doc'[Len(doc')].kind = "table")
        => LET n == Len(response_lines)
               \* lines are counted from 1 here: the header is line i+1, the
               \* separator i+2, the run is (i+3)..e
               e == CHOOSE m \in (i + 2)..n :
                        /\ \A k \in (i + 3)..m : IsPipeRow(response_lines[k])
                        /\ m = n \/ ~IsPipeRow(response_lines[m + 1])
               table == doc'[Len(doc')]
               width == Len(parse_markdown_table_row(response_lines[i + 1]))
           IN  /\ Len(doc') = Len(doc) + 1
               /\ Len(table.rows) = 1 + (e - (i + 2))
               /\ table.rows[1] = RowCells(response_lines[i + 1], width)
               /\ \A k \in 1..(e - (i + 2)) :
                      table.rows[k + 1] = RowCells(response_lines[i + 2 + k], width)
               /\ i' = e]_vars

\* a table of one data row has been emitted, the cursor is at the list
\* item that ended the run
C11_Witness ==
    /\ r_pc = "scan"
    /\ chat_history = OneTurn(JoinLines(<<LineKinds[2], LineKinds[1], LineKinds[3], LineKinds[5]>>))
    /\ i = 3
    /\ Len(doc) = 7
    /\ doc[7] = WordTable(<< <<<<"c">>>>, <<<<"d">>>> >>)

\* the ways to read a line as leading whitespace, a list marker and at
\* least one whitespace character, the whitespace after the marker taken
\* whole: [lead, marker_end, space_end] are the last positions of the parts
ListShapes(line) ==
    LET n == Len(line)
    IN  { s \in [lead : 0..n, marker_end : 1..n, space_end : 1..n] :
            /\ \A k \in 1..s.lead : line[k] \in WhitespaceChars
            /\ \/ /\ s.marker_end = s.lead + 1
                  /\ line[s.marker_end] \in {"*", "-", "+"}
               \/ /\ s.marker_end > s.lead + 1
                  /\ \A k \in (s.lead + 1)..(s.marker_end - 1) : line[k] \in DigitSet
                  /\ line[s.marker_end] = "."
            /\ s.space_end > s.marker_end
            /\ \A k \in (s.marker_end + 1)..s.space_end : line[k] \in WhitespaceChars
            /\ s.space_end = n \/ line[s.space_end + 1] \notin WhitespaceChars }

\* C12: a line that starts no table is rendered as a list item iff it is
\* optional whitespace, a marker ("*", "-" or "+", or digits and ".") and
\* at least one whitespace character; the item is numbered exactly for the
\* digit marker and its text is all that follows the marker's whitespace
C12_ListItemIffMarkerAndSpace ==
    [][(r_pc = "scan" /\ i < Len(response_lines) /\ Len(doc') > Len(doc)
            /\ doc'[Len(doc')].kind = "paragraph")
        => LET line == response_lines[i + 1]
               block == doc'[Len(doc')]
               shapes == ListShapes(line)
           IN  /\ block.style \in {"List Bullet", "List Number"} <=> shapes # {}
               /\ shapes = {} => block.style = "Normal"
               /\ \A s \in shapes :
                      /\ block.style = "List Number" <=> line[s.marker_end] = "."
                      /\ block.runs =
                             add_formatted_text(SubSeq(line, s.space_end + 1, Len(line)))]_vars

\* bulleted and numbered items, an item without text, and lines whose
\* marker has no whitespace after it have been rendered
C12_Witness ==
    /\ r_pc = "scan"
    /\ chat_history = OneTurn(ResponseSamples[5])
    /\ i = 5
    /\ doc[7] = Paragraph("List Bullet", <<Run(<<"a">>, FALSE, FALSE)>>)
    /\ doc[8].style = "List Number"
    /\ doc[8].runs = add_formatted_text(<<"*", "*", "b", "*", "*">>)
    /\ doc[9] = PlainParagraph(<<"1", ".", "x">>)
    /\ doc[10] = PlainParagraph(<<"*", "a">>)
    /\ doc[11] = Paragraph("List Bullet", <<Run(<<>>, FALSE, FALSE)>>)

\* the text of a paragraph: the texts of its runs in order
RECURSIVE RunsText(_)
RunsText(runs) ==
    IF runs = <<>> THEN <<>> ELSE Head(runs).text \o RunsText(Tail(runs))

\* C13: the blocks reproduce the line order: every step of the scan adds
\* exactly one block behind the blocks already there and leaves those as
\* they are; the block is made from the lines from the cursor up to the
\* new cursor, which lies further on: one line for a paragraph or list
\* item (a blank line gives a paragraph without text), the lines of the
\* table for a table block.  A header, a separator and one data row
\* followed by a blank line give one table block and one paragraph block
C13_BlocksFollowLines ==
    /\ [][(r_pc = "scan" /\ i < Len(response_lines))
            => LET line == response_lines[i + 1]
                   block == doc'[Len(doc')]
               IN  /\ Len(doc') = Len(doc) + 1
                   /\ SubSeq(doc', 1, Len(doc)) = doc
                   /\ i' > i
                   /\ i' <= Len(response_lines)
                   /\ block.kind \in {"paragraph", "table"}
                   /\ block.kind = "paragraph" =>
                          /\ i' = i + 1
                          /\ block \in {ListItem(line), PlainParagraph(line)}
                          /\ line = <<>> => block.style = "Normal" /\ RunsText(block.runs) = <<>>
                   /\ block.kind = "table" =>
                          /\ i' >= i + 2
                          /\ Len(block.rows) = i' - i - 1
                          /\ \A k \in 1..Len(block.rows) :
                                 block.rows[k] =
                                     RowCells(response_lines[IF k = 1 THEN i + 1 ELSE i + 1 + k],
                                              Len(block.rows[1]))]_vars
    /\ [](/\ r_pc = "scan"
          /\ turn = 1
          /\ i = Len(response_lines)
          /\ response_lines = <<LineKinds[3], LineKinds[1], LineKinds[2], <<>>>>
          => SubSeq(doc, Len(Preamble) + 3, Len(doc)) =
                 << WordTable(<< <<<<"d">>, <<"e">>, <<"f">>>>,
                                 <<<<"c">>, <<>>, <<>>>> >>),
                    Paragraph("Normal", <<Run(<<>>, FALSE, FALSE)>>) >>)

\* the table and the blank line after it have been rendered
C13_Witness ==
    /\ r_pc = "scan"
    /\ chat_history = OneTurn(ResponseSamples[6])
    /\ response_lines = <<LineKinds[3], LineKinds[1], LineKinds[2], <<>>>>
    /\ i = 4
    /\ Len(doc) = 8
    /\ doc[7].kind = "table"
    /\ doc[8].kind = "paragraph"

(***************************************************************************)
(* Claims about _add_formatted_text                                        *)
(***************************************************************************)
\* C14: inline-span parsing emits one span per delimiter pair, with the
\* enclosed text and the style of the pair, one plain span per fragment
\* that is not delimited, and no other span: no plain span of a text that
\* is not empty is empty, and "**bold** and *italic* and plain" gives
\* exactly the four spans bold "bold", plain " and ", italic "italic",
\* plain " and plain"
C14_ExactlyTheSpans ==
    (f_pc = "done" /\ f_text # <<>>) =>
        /\ \A k \in 1..Len(f_runs) :
               (~f_runs[k].bold /\ ~f_runs[k].italic) => f_runs[k].text # <<>>
        /\ f_text = InlineSamples[1] =>
               f_runs = << Run(<<"b", "o", "l", "d">>, TRUE, FALSE),
                           Run(<<" ", "a", "n", "d", " ">>, FALSE, FALSE),
                           Run(<<"i", "t", "a", "l", "i", "c">>, FALSE, TRUE),
                           Run(<<" ", "a", "n", "d", " ", "p", "l", "a", "i", "n">>, FALSE, FALSE) >>


\* C15: unbalanced or unmatched delimiters degrade to literal plain text:
\* for a text whose stars form no balanced pair around text (at most one
\* star, or one of "*", "a ** b", "**a*") every span is plain and the spans
\* together are the text, stars included
C15_UnmatchedStarsStayLiteral ==
    (/\ f_pc = "done"
     /\ \/ Count(f_text, "*") <= 1
        \/ f_text \in { <<"*">>, InlineSamples[3], <<"*", "*", "a", "*">> })
        => /\ \A k \in 1..Len(f_runs) : ~f_runs[k].bold /\ ~f_runs[k].italic
           /\ RunsText(f_runs) = f_text

\* a part the pattern of line 97 matched, without its markers: two stars on
\* each side of a bold match, one on each side of an italic match
WithoutMarkers(match) ==
    IF Len(match) >= 4 /\ SubSeq(match, 1, 2) = <<"*", "*">>
    THEN SubSeq(match, 3, Len(match) - 2)
    ELSE SubSeq(match, 2, Len(match) - 1)

RECURSIVE TextModuloMarkers(_, _)
\* the parts of a split in order, the matched ones (every second part)
\* without their markers
TextModuloMarkers(split, k) ==
    IF k > Len(split) THEN <<>>
    ELSE (IF k % 2 = 0 THEN WithoutMarkers(split[k]) ELSE split[k])
             \o TextModuloMarkers(split, k + 1)

\* C16: inline-span parsing is order-preserving and lossless modulo matched
\* markers: the texts of the spans in order are the text without the
\* markers of the matched pairs; no other character is dropped, added or
\* moved, the outer stars of "***x***" included
C16_LosslessModuloMarkers ==
    f_pc = "done" =>
        /\ RunsText(f_runs) = TextModuloMarkers(ReSplit(f_text), 1)
        /\ f_text = InlineSamples[2] => RunsText(f_runs) = <<"*", "x", "*">>

(***************************************************************************)
(* Claims about the loops of generate_chat_transcript                      *)
(***************************************************************************)
\* C17: the loop over the lines of a response terminates: the cursor starts
\* at 0, every iteration moves it forward, by 1 for a list item or a
\* paragraph and by at least 2 for a table, it always lies in
\* 0..len(lines) and the loop ends exactly when it is len(lines); the
\* distance len(lines) - i, which never is negative, shrinks with every
\* iteration, so the loop has at most len(lines) of them
C17_ScanTerminates ==
    /\ [](i >= 0 /\ i <= Len(response_lines))
    /\ [][r_pc' = "scan" /\ r_pc # "scan" => i' = 0]_vars
    /\ [][(r_pc = "scan" /\ i < Len(response_lines))
            => /\ r_pc' = "scan"
               /\ i' > i
               /\ doc'[Len(doc')].kind = "paragraph" => i' = i + 1
               /\ doc'[Len(doc')].kind = "table" => i' >= i + 2]_vars
    /\ [][(r_pc = "scan" /\ r_pc' # "scan") => i = Len(response_lines)]_vars
    /\ [][(r_pc = "scan" /\ i = Len(response_lines)) => r_pc' # "scan"]_vars

\* the loop over four lines has ended after three iterations, one of them
\* for a table of two lines
C17_Witness ==
    /\ r_pc = "turn"
    /\ turn = 1
    /\ response_lines = <<LineKinds[5], LineKinds[2], LineKinds[1], LineKinds[5]>>
    /\ i = 4
    /\ Len(doc) = Len(Preamble) + 2 + 3 + 1

RECURSIVE BlocksOfLines(_, _)
\* the blocks of the lines of one response from the given line on, as a
\* function of these lines alone
BlocksOfLines(lines, from) ==
    IF from >= Len(lines) THEN <<>>
    ELSE IF TableStart(lines, from)
    THEN <<WordTableOf(TableRows(lines, from))>>
             \o BlocksOfLines(lines, from + 1 + Len(TableRows(lines, from)))
    ELSE <<IF ListMatch(lines[from + 1]).matched
           THEN ListItem(lines[from + 1])
           ELSE PlainParagraph(lines[from + 1])>>
             \o BlocksOfLines(lines, from + 1)

\* the blocks of one turn: the query, the label of the response, the blocks
\* of the response and the paragraph that ends the turn
BlocksOfTurn(t) ==
    TurnIntro(t.query) \o BlocksOfLines(SplitLines(t.response), 0)
        \o <<Paragraph("Normal", <<>>)>>

RECURSIVE BlocksOfTurns(_, _)
\* the blocks of the first n turns of a history, in the order of the history
BlocksOfTurns(history, n) ==
    IF n = 0 THEN <<>>
    ELSE BlocksOfTurns(history, n - 1) \o BlocksOfTurn(history[n])

\* C18: the turns appear in the order of the chat history, the query block
\* of a turn in front of the blocks of its response, and the blocks of a
\* turn depend on the text of that turn only: between two turns the
\* document is the preamble followed, turn by turn, by the blocks each turn
\* gives on its own
C18_TurnsInOrderAndIndependent ==
    r_pc \in {"turn", "done", "save failed"} =>
        doc = Preamble \o BlocksOfTurns(chat_history, turn)

\* two turns with different queries have been rendered, the first with a
\* list item, the second with a table
C18_Witness ==
    /\ r_pc = "turn"
    /\ turn = 2
    /\ chat_history = << Turn(TurnQueries[2], TurnSamples[2]),
                         Turn(TurnQueries[1], TurnSamples[1]) >>
    /\ Len(doc) = Len(Preamble) + 4 + 4
    /\ doc[5].runs[2].text = TurnQueries[2]
    /\ doc[7].style = "List Bullet"
    /\ doc[9].runs[2].text = TurnQueries[1]
    /\ doc[11].kind = "table"

(***************************************************************************)
(* Claims about the chat session                                           *)
(***************************************************************************)
\* C19: the chat history is append-only: a step changes chat_history only
\* by appending one (query, response) pair at its end, the turns already
\* there stay as they are and where they are; and every query for which the
\* service was called has appended exactly one turn, whether the call
\* returned a response, returned an error or raised
C19_HistoryAppendOnly ==
    /\ [][\/ chat_history' = chat_history
          \/ /\ Len(chat_history') = Len(chat_history) + 1
             /\ SubSeq(chat_history', 1, Len(chat_history)) = chat_history
             /\ DOMAIN chat_history'[Len(chat_history')] = {"query", "response"}]_vars
    /\ [][llm_calls' # llm_calls
            => llm_calls' = llm_calls + 1 /\ Len(chat_history') = Len(chat_history) + 1]_vars
    /\ [](Len(chat_history) = llm_calls)

\* two preset questions and a query of the user have been answered: by an
\* error, by an exception and by a response
C19_Witness ==
    /\ c_pc = "chat"
    /\ llm_calls = 3
    /\ Len(chat_history) = 3
    /\ \E o1, o2, o3 \in LlmOutcomes :
           /\ ~o1.raises /\ ~Truthy(o1.llm_response) /\ Truthy(o1.error_message)
           /\ o2.raises
           /\ Truthy(o3.llm_response)
           /\ chat_history =
                  << Turn(PresetQueryText(PresetPairs(PRESET_FINANCIAL_QUESTIONS)[1]),
                          ChatbotPrefix \o PresetResponseText(o1)),
                     Turn(PresetQueryText(PresetPairs(PRESET_FINANCIAL_QUESTIONS)[2]),
                          ChatbotPrefix \o PresetResponseText(o2)),
                     Turn(UserQueryText(<<"q">>), ChatbotPrefix \o ChatResponseText(o3)) >>


(***************************************************************************)
(* Claims about the extraction service                                     *)
(***************************************************************************)
\* spec.md, RawTableSet: a raw table is empty, the "not found" table, or a
\* non-empty header row followed by data rows, every row a list of cells
RawTableInvariant(table) ==
    /\ table.isList
    /\ \/ table.rows = <<>>
       \/ table = ListTable(<<ListRow(<<Str(TableNotFoundText)>>)>>)
       \/ /\ \A k \in 1..Len(table.rows) : table.rows[k].isList
          /\ Len(table.rows[1].cells) >= 1

\* the keys of the returned mapping are exactly the target tables
KeysAreTargets ==
    /\ Len(tables_data) = Len(TARGET_TABLES)
    /\ \A k \in 1..Len(tables_data) : tables_data[k].name = TARGET_TABLES[k]

\* C20 as stated: every raw table that the extraction service hands to the
\* normalizer is empty, the table [["Table Not Found"]], or a non-empty header row
\* followed by zero or more data rows, and the mapping handed over has
\* exactly the target table names as its keys
C20_HandedTablesAreRaw ==
    x_pc = "saving"
        => /\ KeysAreTargets
           /\ \A k \in 1..Len(tables_data) : RawTableInvariant(tables_data[k].data)

\* C20, amended: the mapping handed to the normalizer has exactly the target
\* table names as its keys, and every value in it is a list that is empty or
\* begins with a list; the header row may be empty and later rows need not
\* be lists.
C20_KeysAndFirstRow ==
    x_pc = "saving"
        => /\ KeysAreTargets
           /\ \A k \in 1..Len(tables_data) :
                 LET table == tables_data[k].data
                 IN  table.isList /\ (table.rows = <<>> \/ table.rows[1].isList)

\* a response with an empty header row under the first target table, no
\* second target table and a list of no lists under the third has been
\* handed to save_tables_to_excel, which has finished
C20_Witness ==
    /\ x_pc = "saving"
    /\ tables_data[1].data = ListTable(<<ListRow(<<>>)>>)
    /\ tables_data[2].data = TableNotInResponse
    /\ tables_data[3].data = TableMalformed
    /\ t_pc = "done"


(***************************************************************************)
(* Claims about the end of the session                                     *)
(***************************************************************************)
\* C21: when main has returned, _delete_file has been called with every
\* file that was uploaded to the service for the chat, whatever path led to
\* the end: exit, no after the preset questions, exit/quit, Ctrl+C (also
\* while later files are still being uploaded) or an exception
C21_UploadedFilesDeleted ==
    c_pc = "ended" => service_files \subseteq delete_calls


\* C22: on every path to the end of main the transcript is generated once
\* when chat_history has a turn and not at all when it has none, and it is
\* generated from all the turns recorded up to the exit: a call of
\* generate_chat_transcript begins in the finally block only, with a history
\* that is not empty; a call that has returned is not followed by another;
\* and when main has ended the call has returned with the blocks of every
\* turn of chat_history, or chat_history is empty and no call was made
C22_TranscriptOnceFromFullHistory ==
    /\ [][(r_pc = "off" /\ r_pc' # "off") => (c_pc = "finally" /\ chat_history # <<>>)]_vars
    /\ [][(r_pc \in {"done", "save failed"}) => (r_pc' = r_pc /\ doc' = doc)]_vars
    /\ [][(c_pc \in {"finally", "transcript", "cleanup", "ended"})
              => chat_history' = chat_history]_vars
    /\ [](c_pc \in {"cleanup", "ended"} =>
             IF chat_history # <<>>
             THEN /\ r_pc \in {"done", "save failed"}
                  /\ turn = Len(chat_history)
                  /\ doc = Preamble \o BlocksOfTurns(chat_history, Len(chat_history))
             ELSE r_pc = "off" /\ doc = <<>>)

\* the session was interrupted after the first preset question: main has
\* ended, the transcript of the one turn is saved
C22_Witness ==
    /\ c_pc = "ended"
    /\ Len(chat_history) = 1
    /\ p_idx = 1
    /\ p_idx < Len(PresetPairs(PRESET_FINANCIAL_QUESTIONS))
    /\ r_pc = "done"
    /\ turn = 1


(***************************************************************************)
(* Claims about the files of the extraction service                        *)
(***************************************************************************)
\* C23: when extract_tables_from_pdf has returned, _delete_file has been
\* called with the file the call created on the service, on every path: a
\* successful extraction, an upload that ends in state FAILED, an exception
\* while the state is polled, a response that is no JSON, any other exception
C23_CreatedFileDeleted ==
    (x_pc \in {"returned", "saving", "logged", "log saved"} /\ x_service_file) => x_delete_called


(***************************************************************************)
(* Claims about the extraction log                                         *)
(***************************************************************************)
\* one entry per PDF processed so far, in the order of the PDFs
OneEntryPerPdf ==
    /\ Len(extraction_log_entries) =
           IF x_pc \in {"logged", "log saved"} THEN pdf_no ELSE pdf_no - 1
    /\ \A k \in 1..Len(extraction_log_entries) :
           extraction_log_entries[k].pdf_filename = pdfs_to_process[k]

\* the names of the tables of the current PDF that were given a sheet
SheetTables == { tables_data[k].name : k \in { m \in 1..Len(tables_data) : HasSheet(m) } }

\* C24: the extraction log agrees with what was written: one entry per
\* processed PDF, in processing order, whether or not a PDF failed; an entry
\* has the status "Success" only if a sheet of that PDF was written; and the
\* names an entry lists as extracted are exactly the tables the normalizer
\* did not skip
C24_LogMatchesSheets ==
    /\ x_pc # "off" => OneEntryPerPdf
    /\ x_pc \in {"logged", "log saved"} =>
           LET entry == extraction_log_entries[Len(extraction_log_entries)]
           IN  /\ entry.status = "Success" =>
                      (excel_file.written /\ excel_file.sheets # <<>>)
               /\ entry.status # "Failure" =>
                      { entry.extracted_tables[k] : k \in 1..Len(entry.extracted_tables) }
                          \ {"None"} = SheetTables


(***************************************************************************)
(* Claims about the text the renderer is given                             *)
(***************************************************************************)
\* the text the service answered (or the message put in its place) in the
\* k-th turn: the stored response without the label "Chatbot: " that lines
\* 52, 56, 61, 487, 491 and 496 put in front of it
ResponseText(k) ==
    SubSeq(chat_history[k].response, Len(ChatbotPrefix) + 1, Len(chat_history[k].response))

RECURSIVE BlocksOfResponses(_)
\* the blocks of the first n turns when each response text is parsed as it
\* was answered
BlocksOfResponses(n) ==
    IF n = 0 THEN <<>>
    ELSE BlocksOfResponses(n - 1)
             \o TurnIntro(chat_history[n].query)
             \o BlocksOfLines(SplitLines(ResponseText(n)), 0)
             \o <<Paragraph("Normal", <<>>)>>

\* C25: the text the Markdown renderer parses for a turn is exactly the
\* response text of that turn, so that a response whose first line is a
\* table header followed by a separator line gives a Table block and one
\* whose first line is a list item gives a ListItem block: the lines scanned
\* are the lines of the response text, and the finished transcript holds,
\* turn by turn, the blocks of the response text
C25_RendererParsesResponseText ==
    /\ (c_pc = "transcript" /\ r_pc = "scan") =>
           response_lines = SplitLines(ResponseText(turn))
    /\ (c_pc \in {"cleanup", "ended"} /\ chat_history # <<>>) =>
           doc = Preamble \o BlocksOfResponses(Len(chat_history))


(***************************************************************************)
(* Claims about _is_markdown_table_separator, under SpecSeparator          *)
(***************************************************************************)
\* a line without the whitespace around it
Trimmed(line) ==
    LET inner == { k \in 1..Len(line) : line[k] \notin WhitespaceChars }
    IN  IF inner = {} THEN <<>>
        ELSE SubSeq(line, CHOOSE k \in inner : \A m \in inner : k <= m,
                          CHOOSE k \in inner : \A m \in inner : m <= k)

\* a cell that is, without at most one colon in front and at most one
\* behind, a non-empty run of hyphens
IsHyphenCell(cell) ==
    \E a, b \in 1..Len(cell) :
        /\ a <= b
        /\ \A k \in a..b : cell[k] = "-"
        /\ a = 1 \/ (a = 2 /\ cell[1] = ":")
        /\ b = Len(cell) \/ (b = Len(cell) - 1 /\ cell[Len(cell)] = ":")

\* the cells between the pipes of a line that begins and ends with a pipe:
\* the text between every pipe and the next one
CellsBetweenPipes(line) ==
    LET pipes == { k \in 1..Len(line) : line[k] = "|" }
    IN  { SubSeq(line, p + 1, q - 1) :
              <<p, q>> \in { pq \in pipes \X pipes :
                                /\ pq[1] < pq[2]
                                /\ \A k \in (pq[1] + 1)..(pq[2] - 1) : line[k] # "|" } }

\* the separator rows as the specification describes them
IsSeparatorRow(line) ==
    LET row == Trimmed(line)
    IN  /\ Len(row) >= 2
        /\ row[1] = "|"
        /\ row[Len(row)] = "|"
        /\ \A cell \in CellsBetweenPipes(row) :
               Trimmed(cell) = <<>> \/ IsHyphenCell(Trimmed(cell))

\* C26: a line is accepted as a table separator if and only if it is
\* pipe-delimited, with at least two pipes, and every cell between the
\* pipes is empty or, trimmed and without at most one leading and one
\* trailing colon, a non-empty run of hyphens
C26_SeparatorIffHyphenCells ==
    s_result # "none" => (s_result = "True" <=> IsSeparatorRow(s_line))

\* the line "|---|:--:|" has been accepted
C26_Witness ==
    /\ s_line = <<"|", "-", "-", "-", "|", ":", "-", "-", ":", "|">>
    /\ s_result = "True"


\* the characters a sheet identifier may hold
SheetNameChars == DigitSet \cup UpperSet \cup LowerSet \cup {" ", "_"}

\* the name without every character that is not alphanumeric, space or
\* underscore
Sanitized(name) == SelectSeq(name, LAMBDA c : c \in SheetNameChars)

\* the first characters of a text, all of them when it is short
FirstChars(text, n) == [k \in 1..(IF Len(text) < n THEN Len(text) ELSE n) |-> text[k]]

\* the identifiers of the sheets collected so far
SheetIdentifiers == { sheets_to_write[k].key : k \in 1..Len(sheets_to_write) }

\* the tables handled so far that were neither skipped nor rejected
TablesGivenSheets == { k \in Handled : ~Skipped(k) /\ ~Rejected(k) }

\* C27 as stated: the sheet identifier used for a table is the first 31
\* characters of its name without the characters that are not alphanumeric,
\* space or underscore
C27_SheetNameIsTruncatedSanitizedName ==
    SheetIdentifiers = { FirstChars(Sanitized(tables_data[k].name), 31) : k \in TablesGivenSheets }

\* C27: the sheet identifier used for a table is the first 31 characters of
\* its name without the characters that are not alphanumeric, space or
\* underscore and without the whitespace that this leaves at its two ends;
\* it has at most 31 characters, all of them alphanumeric, space or underscore
C27_SheetNameIsTruncatedTrimmedSanitizedName ==
    /\ SheetIdentifiers =
           { FirstChars(Trimmed(Sanitized(tables_data[k].name)), 31) : k \in TablesGivenSheets }
    /\ \A id \in SheetIdentifiers :
           /\ Len(id) <= 31
           /\ \A k \in 1..Len(id) : id[k] \in SheetNameChars

\* the workbook was written with the sheet "Notes 1" of the table
\* "- Notes: 1" and with a sheet whose identifier is the first 31 characters
\* of a longer name
C27_Witness ==
    /\ excel_file.written
    /\ <<"N", "o", "t", "e", "s", " ", "1">> \in SheetIdentifiers
    /\ tables_data[1].name = <<"-", " ", "N", "o", "t", "e", "s", ":", " ", "1">>
    /\ \E k \in TablesGivenSheets :
           /\ Len(tables_data[k].name) > 31
           /\ FirstChars(tables_data[k].name, 31) \in SheetIdentifiers


\* the sheet identifier of the k-th table: its name without the characters
\* no identifier keeps, trimmed, cut to 31 characters
SheetIdOf(k) == FirstChars(Trimmed(Sanitized(tables_data[k].name)), 31)

\* the valid tables handled so far whose identifier is id
ValidWithId(id) ==
    { k \in Handled : IndividuallyValid(tables_data[k].data) /\ SheetIdOf(k) = id }

\* the sheets stored under the identifier
SheetsWithId(sheets, id) == { n \in 1..Len(sheets) : sheets[n].key = id }

\* the cleaned table of the k-th table
CleanedTableOf(k) ==
    LET d == tables_data[k].data
    IN  DataFrame(ProcessedRows(Tail(d.rows), Len(d.rows[1].cells)), d.rows[1].cells)

\* C28: when two or more valid tables of a table set have the same sheet
\* identifier, there is exactly one sheet with the identifier and it holds
\* the cleaned table of the last of them; no warning and no error is logged
\* for any of them, every valid table with an identifier of its own has its
\* own cleaned table as its sheet, and the workbook is written with these
\* sheets
C28_CollisionLastWins ==
    /\ \A k \in Handled :
           IndividuallyValid(tables_data[k].data) =>
               LET same == ValidWithId(SheetIdOf(k))
                   last == CHOOSE m \in same : \A n \in same : n <= m
                   at   == SheetsWithId(sheets_to_write, SheetIdOf(k))
               IN  /\ Cardinality(at) = 1
                   /\ \A n \in at : sheets_to_write[n].val = CleanedTableOf(last)
                   /\ \A e \in 1..Len(log) : log[e].table # tables_data[k].name
    /\ excel_file.written => excel_file.sheets = sheets_to_write

\* the workbook was written for a set of three valid tables of which the
\* second and the third have the same identifier and different data: it has
\* two sheets, the first table's and the third table's, and nothing was
\* logged
C28_Witness ==
    /\ excel_file.written
    /\ Len(tables_data) = 3
    /\ \A k \in 1..3 : IndividuallyValid(tables_data[k].data)
    /\ SheetIdOf(2) = SheetIdOf(3)
    /\ SheetIdOf(1) # SheetIdOf(2)
    /\ tables_data[2].name # tables_data[3].name
    /\ CleanedTableOf(2) # CleanedTableOf(3)
    /\ Len(excel_file.sheets) = 2
    /\ excel_file.sheets[1].val = CleanedTableOf(1)
    /\ excel_file.sheets[2].val = CleanedTableOf(3)
    /\ log = <<>>

=============================================================================
